---- MODULE Spec2Model ----
(***************************************************************************)
(* A model of the Compiscript compiler core: the symbol table              *)
(* (SymbolTable.py), the semantic analyzer and the driver                  *)
(* (SemanticAnalyzer.py, Driver.py), the TAC generator                     *)
(* (TACCodeGenerator.py) and the MIPS generator (MIPSGenerator.py).        *)
(*                                                                         *)
(* Each Python object is one record-valued variable holding its fields;    *)
(* each method is an operator from the object's record (and the call's     *)
(* arguments) to the new record, so that a handler which calls several     *)
(* methods in a row is one action.                                         *)
(*                                                                         *)
(* Source text is modelled at token granularity: a text is a sequence of   *)
(* tokens, and the Python string operations (startswith, rfind, split,     *)
(* isalnum, "in") are computed on that sequence.                           *)
(***************************************************************************)
EXTENDS Integers, Sequences, FiniteSets, TLC

\* ------------------------------------------------------------------------
\* Bounds of the model
\* ------------------------------------------------------------------------
MaxScopes == 2
MaxErrors == 2

MaxNodes == 5
MaxSemScopes == 4

VARIABLES
    symbol_table,   \* SymbolTable: [scopes, current_scope, errors]
    st_call,        \* the last SymbolTable call and what it returned
    analyzer,       \* SemanticAnalyzer fields and its ExpressionEvaluator's errors
    walk,           \* ParseTreeWalker: the open nodes of the tree being walked
    driver,         \* Driver.main: its position and what it has run
    tac_generator,  \* TACCodeGenerator fields
    mips_generator  \* MIPSGenerator: the parsed TAC and the generated text

vars == <<symbol_table, st_call, analyzer, walk, driver, tac_generator, mips_generator>>

\* an object that Driver.main has not constructed yet
NotCreated == [created |-> FALSE]

\* ------------------------------------------------------------------------
\* Small helpers
\* ------------------------------------------------------------------------
Last(s) == s[Len(s)]
Front(s) == SubSeq(s, 1, Len(s) - 1)

\* A Python dict is a set of <<key, value>> pairs; d[k] = v replaces the pair.
DictHas(d, k) == \E p \in d : p[1] = k
DictGet(d, k) == (CHOOSE p \in d : p[1] = k)[2]
DictPut(d, k, v) == {p \in d : p[1] # k} \cup {<<k, v>>}

\* ------------------------------------------------------------------------
\* SymbolTable.py
\* ------------------------------------------------------------------------
SymbolTypes == {"integer", "string", "boolean", "null", "function", "class", "void"}

\* Symbol / FunctionSymbol / ClassSymbol: the fields the analyzer reads.
Symbol(name, type) ==
    [name |-> name, type |-> type, return_type |-> "null",
     is_constant |-> FALSE, is_initialized |-> FALSE, line_declared |-> 0]

FunctionSymbol(name, return_type) ==
    [name |-> name, type |-> "function", return_type |-> return_type,
     is_constant |-> FALSE, is_initialized |-> FALSE, line_declared |-> 0]

ClassSymbol(name) == Symbol(name, "class")

\* Python's None where a Symbol is expected.
None == Symbol("<None>", "null")

Scope(name, parent) == [name |-> name, parent |-> parent, symbols |-> {}]

\* Mutant of Scope_define: the membership test is missing, the binding is
\* overwritten and the call reports success.
Scope_define_overwrite(symbols, symbol) ==
    [ok |-> TRUE, symbols |-> DictPut(symbols, symbol.name, symbol)]

\* Scope.define
Scope_define(symbols, symbol) ==
    IF DictHas(symbols, symbol.name)
    THEN [ok |-> FALSE, symbols |-> symbols]
    ELSE [ok |-> TRUE, symbols |-> DictPut(symbols, symbol.name, symbol)]

\* Scope.lookup_local
Scope_lookup_local(scope, name) ==
    IF DictHas(scope.symbols, name) THEN DictGet(scope.symbols, name) ELSE None

\* Scope.lookup: this scope, then the parents
RECURSIVE Scope_lookup(_, _, _)
Scope_lookup(scopes, s, name) ==
    IF DictHas(scopes[s].symbols, name) THEN DictGet(scopes[s].symbols, name)
    ELSE IF scopes[s].parent # 0 THEN Scope_lookup(scopes, scopes[s].parent, name)
    ELSE None

\* SymbolTable._init_builtins
ST_init_builtins(global) ==
    [global EXCEPT !.symbols =
        Scope_define(global.symbols, FunctionSymbol("print", "void")).symbols]

\* SymbolTable.__init__
ST_new ==
    [scopes |-> <<ST_init_builtins(Scope(<<"global">>, 0))>>,
     current_scope |-> 1,
     errors |-> <<>>]

\* SymbolTable.enter_scope
ST_enter_scope(st, name) ==
    [st EXCEPT !.scopes = Append(st.scopes, Scope(name, st.current_scope)),
               !.current_scope = Len(st.scopes) + 1]

\* SymbolTable.exit_scope
ST_exit_scope(st) ==
    IF st.scopes[st.current_scope].parent # 0
    THEN [st EXCEPT !.current_scope = st.scopes[st.current_scope].parent]
    ELSE st

\* SymbolTable.define: [ok, st]
ST_define(st, symbol, line) ==
    LET sym == [symbol EXCEPT !.line_declared = line]
        r == Scope_define(st.scopes[st.current_scope].symbols, sym)
    IN IF ~r.ok
       THEN [ok |-> FALSE,
             st |-> [st EXCEPT !.errors =
                        Append(st.errors, <<"already declared", symbol.name>>)]]
       ELSE [ok |-> TRUE,
             st |-> [st EXCEPT !.scopes[st.current_scope].symbols = r.symbols]]

\* SymbolTable.lookup / lookup_local / has_errors
ST_lookup(st, name) == Scope_lookup(st.scopes, st.current_scope, name)
ST_lookup_local(st, name) == Scope_lookup_local(st.scopes[st.current_scope], name)
ST_has_errors(st) == Len(st.errors) > 0

\* ------------------------------------------------------------------------
\* SpecST: any sequence of enter_scope, exit_scope and define calls
\* ------------------------------------------------------------------------
STNames == {"a", "b"}
STDecls == {<<"integer", 1>>, <<"string", 2>>}
STScopeNames == {<<"block">>}

NoCall == [op |-> "none", name |-> "", bound |-> FALSE, before |-> None,
           nerr |-> 0, ret |-> TRUE, scope |-> 0]

\* The analyzer, walker and driver before any walk has started.
SA_new ==
    [errors |-> <<>>, ev_errors |-> <<>>,
     current_function |-> [some |-> FALSE, name |-> "", return_type |-> "void",
                           has_return |-> FALSE],
     current_class |-> [some |-> FALSE, name |-> "", attributes |-> {}]]

NoExit == [at |-> 0, entered |-> 0, back |-> 0]

Walk_new == [stack |-> <<[kind |-> "program", line |-> 0, back |-> 0, entered |-> 0, body |-> TRUE]>>,
             next_line |-> 1, last_exit |-> NoExit]

Driver_new == [phase |-> "walking", generate_mips |-> FALSE,
               tac_run |-> FALSE, mips_run |-> FALSE]

InitST ==
    /\ symbol_table = ST_new
    /\ st_call = NoCall
    /\ analyzer = SA_new
    /\ walk = Walk_new
    /\ driver = Driver_new
    /\ tac_generator = NotCreated
    /\ mips_generator = NotCreated

STEnterScope ==
    \E name \in STScopeNames :
        /\ Len(symbol_table.scopes) < MaxScopes
        /\ symbol_table' = ST_enter_scope(symbol_table, name)
        /\ st_call' = [NoCall EXCEPT !.op = "enter_scope"]
        /\ UNCHANGED <<analyzer, walk, driver, tac_generator, mips_generator>>

STExitScope ==
    /\ symbol_table' = ST_exit_scope(symbol_table)
    /\ st_call' = [NoCall EXCEPT !.op = "exit_scope"]
    /\ UNCHANGED <<analyzer, walk, driver, tac_generator, mips_generator>>

STDefine ==
    \E name \in STNames, d \in STDecls :
        LET r == ST_define(symbol_table, Symbol(name, d[1]), d[2]) IN
        /\ Len(symbol_table.errors) < MaxErrors
        /\ symbol_table' = r.st
        /\ st_call' = [op |-> "define", name |-> name,
                       bound |-> DictHas(symbol_table.scopes[symbol_table.current_scope].symbols, name),
                       before |-> ST_lookup_local(symbol_table, name),
                       nerr |-> Len(symbol_table.errors),
                       ret |-> r.ok,
                       scope |-> symbol_table.current_scope]
        /\ UNCHANGED <<analyzer, walk, driver, tac_generator, mips_generator>>

NextST == STEnterScope \/ STExitScope \/ STDefine

SpecST == InitST /\ [][NextST]_vars

\* C3: a define whose name is already bound in the current scope returns the
\* duplicate result (False), records one diagnostic and leaves the symbol
\* bound to that name unchanged; every scope binds each name to at most one
\* symbol.
C3_DefineDuplicate ==
    /\ (st_call.op = "define" /\ st_call.bound) =>
          /\ st_call.ret = FALSE
          /\ Len(symbol_table.errors) = st_call.nerr + 1
          /\ Last(symbol_table.errors) = <<"already declared", st_call.name>>
          /\ ST_lookup_local(symbol_table, st_call.name) = st_call.before
    /\ \A s \in 1..Len(symbol_table.scopes) : \A n \in STNames \cup {"print"} :
          Cardinality({p \in symbol_table.scopes[s].symbols : p[1] = n}) <= 1

\* A duplicate define has happened in a nested scope, with another type and
\* line than the symbol already bound.
C3_Witness ==
    /\ st_call.op = "define" /\ st_call.bound /\ ~st_call.ret
    /\ symbol_table.current_scope > 1
    /\ st_call.before.type = "integer" /\ st_call.before.line_declared = 1

\* ------------------------------------------------------------------------
\* ExpressionEvaluator.py, for the expressions of the modelled programs:
\* <<"none">> no expression, <<"int">> an integer literal,
\* <<"id", n>> the identifier n, <<"this">>.
\* ------------------------------------------------------------------------

\* The scope-chain search of evaluate_primary_atom for `this`
RECURSIVE EE_in_class_scope(_, _)
EE_in_class_scope(scopes, s) ==
    IF scopes[s].name[1] \in {"class_", "init"} THEN TRUE
    ELSE IF scopes[s].parent # 0 THEN EE_in_class_scope(scopes, scopes[s].parent)
    ELSE FALSE

\* ExpressionEvaluator.evaluate_expression: the type, and the messages that
\* add_error appends to the evaluator's own list
EE_evaluate_expression(st, e, line) ==
    IF e[1] = "none" THEN [type |-> "null", errors |-> <<>>]
    ELSE IF e[1] = "int" THEN [type |-> "integer", errors |-> <<>>]
    ELSE IF e[1] = "this" THEN
        IF EE_in_class_scope(st.scopes, st.current_scope)
        THEN [type |-> "class", errors |-> <<>>]
        ELSE [type |-> "null",
              errors |-> << <<line, "'this' can only be used inside a class", "">> >>]
    ELSE LET symbol == ST_lookup(st, e[2]) IN
        IF symbol = None
        THEN [type |-> "null", errors |-> << <<line, "Undefined identifier", e[2]>> >>]
        ELSE [type |-> symbol.type,
              errors |-> IF /\ symbol.type \notin {"function", "class"}
                            /\ ~symbol.is_initialized
                            /\ ~symbol.is_constant
                         THEN << <<line, "is used before being initialized", e[2]>> >>
                         ELSE <<>>]

\* ExpressionEvaluator.are_types_compatible, operation "assignment"
EE_are_types_compatible(left, right) ==
    IF left = "null" \/ right = "null" THEN FALSE ELSE left = right

\* ------------------------------------------------------------------------
\* SemanticAnalyzer.py
\* ------------------------------------------------------------------------
reserved_keywords ==
    {"let", "var", "const", "function", "class", "if", "else", "while", "do",
     "for", "foreach", "in", "break", "continue", "return", "try", "catch",
     "throw", "switch", "case", "default", "new", "this", "super", "null",
     "true", "false", "print", "integer", "string", "boolean", "void"}

SA_is_reserved_identifier(name) == name \in reserved_keywords

\* SemanticAnalyzer.add_error: only the analyzer's own list grows
SA_add_error(an, line, message, arg) ==
    [an EXCEPT !.errors = Append(@, <<line, message, arg>>)]

\* the evaluator's add_error, reached through evaluate_expression
SA_ev_errors(an, errs) == [an EXCEPT !.ev_errors = @ \o errs]

SA_get_type_from_string(st, type_str) ==
    IF type_str \in {"integer", "string", "float", "boolean", "void"} THEN type_str
    ELSE LET class_symbol == ST_lookup(st, type_str) IN
         IF class_symbol # None /\ class_symbol.type = "class" THEN "class" ELSE "null"

\* SemanticAnalyzer.has_errors: the definition at the end of the class, which
\* is the one in effect
SA_has_errors(an) == Len(an.errors) > 0

NoFunction == [some |-> FALSE, name |-> "", return_type |-> "void", has_return |-> FALSE]
NoClass == [some |-> FALSE, name |-> "", attributes |-> {}]

Rejected(st, an) == [st |-> st, an |-> an, entered |-> 0]

\* enterFunctionDeclaration (functions without parameters); type_text = ""
\* when there is no return type annotation
SA_enterFunctionDeclaration(st, an, func_name, type_text, line) ==
    IF SA_is_reserved_identifier(func_name)
    THEN Rejected(st, SA_add_error(an, line, "is a reserved keyword and cannot be used as a function name", func_name))
    ELSE IF ST_lookup_local(st, func_name) # None
    THEN Rejected(st, SA_add_error(an, line, "Function already declared in current scope", func_name))
    ELSE LET return_type == IF type_text = "" THEN "void"
                            ELSE SA_get_type_from_string(st, type_text) IN
         IF return_type = "null"
         THEN Rejected(st, SA_add_error(an, line, "Unknown return type", type_text))
         ELSE LET d == ST_define(st, FunctionSymbol(func_name, return_type), line)
                  st2 == ST_enter_scope(d.st, <<"function_", func_name>>)
              IN [st |-> st2,
                  an |-> [an EXCEPT !.current_function =
                             [some |-> TRUE, name |-> func_name,
                              return_type |-> return_type, has_return |-> FALSE]],
                  entered |-> st2.current_scope]

\* exitFunctionDeclaration
SA_exitFunctionDeclaration(st, an, line) ==
    LET cf == an.current_function
        an1 == IF cf.some /\ cf.return_type # "void" /\ ~cf.has_return
               THEN SA_add_error(an, line, "Function must return a value", cf.name)
               ELSE an
    IN [st |-> ST_exit_scope(st), an |-> [an1 EXCEPT !.current_function = NoFunction]]

\* enterClassDeclaration; parent_class = "" when there is no superclass
SA_enterClassDeclaration(st, an, class_name, parent_class, line) ==
    IF SA_is_reserved_identifier(class_name)
    THEN Rejected(st, SA_add_error(an, line, "is a reserved keyword and cannot be used as a class name", class_name))
    ELSE IF ST_lookup_local(st, class_name) # None
    THEN Rejected(st, SA_add_error(an, line, "Class already declared in current scope", class_name))
    ELSE IF parent_class # "" /\ ST_lookup(st, parent_class) = None
    THEN Rejected(st, SA_add_error(an, line, "Parent class not found", parent_class))
    ELSE IF parent_class # "" /\ ST_lookup(st, parent_class).type # "class"
    THEN Rejected(st, SA_add_error(an, line, "is not a class", parent_class))
    ELSE IF parent_class # "" /\ parent_class = class_name
    THEN Rejected(st, SA_add_error(an, line, "Class cannot inherit from itself", class_name))
    ELSE LET d == ST_define(st, ClassSymbol(class_name), line)
             st2 == ST_enter_scope(d.st, <<"class_", class_name>>)
         IN [st |-> st2,
             an |-> [an EXCEPT !.current_class =
                        [some |-> TRUE, name |-> class_name, attributes |-> {}]],
             entered |-> st2.current_scope]

\* exitClassDeclaration
SA_exitClassDeclaration(st, an) ==
    [st |-> ST_exit_scope(st), an |-> [an EXCEPT !.current_class = NoClass]]

\* enterInitMethod (constructors without parameters)
SA_enterInitMethod(st, an, line) ==
    IF ~an.current_class.some
    THEN Rejected(st, SA_add_error(an, line, "Init method must be inside a class", ""))
    ELSE LET st2 == ST_enter_scope(st, <<"init">>)
         IN [st |-> st2,
             an |-> [an EXCEPT !.current_function =
                        [some |-> TRUE, name |-> "init",
                         return_type |-> "void", has_return |-> FALSE]],
             entered |-> st2.current_scope]

\* exitInitMethod
SA_exitInitMethod(st, an) ==
    [st |-> ST_exit_scope(st), an |-> [an EXCEPT !.current_function = NoFunction]]

\* enterBlock / exitBlock
SA_enterBlock(st) == ST_enter_scope(st, <<"block">>)
SA_exitBlock(st) == ST_exit_scope(st)

\* enterVariableDeclaration (no array types); type_text = "" when there is no
\* annotation, init = <<"none">> when there is no initializer
SA_enterVariableDeclaration(st, an, var_name, type_text, init, line) ==
    IF SA_is_reserved_identifier(var_name)
    THEN [st |-> st, an |-> SA_add_error(an, line, "is a reserved keyword and cannot be used as a variable name", var_name)]
    ELSE IF ST_lookup_local(st, var_name) # None
    THEN [st |-> st, an |-> SA_add_error(an, line, "Variable already declared in current scope", var_name)]
    ELSE LET var_type == IF type_text = "" THEN "null"
                         ELSE SA_get_type_from_string(st, type_text) IN
         IF type_text # "" /\ var_type = "null"
         THEN [st |-> st, an |-> SA_add_error(an, line, "Unknown type", type_text)]
         ELSE LET rhs == EE_evaluate_expression(st, init, line)
                  an1 == IF init[1] = "none" THEN an ELSE SA_ev_errors(an, rhs.errors)
                  an2 == IF /\ init[1] # "none" /\ type_text # ""
                            /\ rhs.type # "null"
                            /\ ~EE_are_types_compatible(var_type, rhs.type)
                         THEN SA_add_error(an1, line, "Cannot initialize variable", var_name)
                         ELSE an1
                  symbol == [Symbol(var_name,
                                    IF init[1] # "none" /\ type_text = "" /\ rhs.type # "null"
                                    THEN rhs.type ELSE var_type)
                             EXCEPT !.is_initialized = (init[1] # "none")]
              IN [st |-> ST_define(st, symbol, line).st, an |-> an2]

\* enterAssignment, property form `this.property_name = value;`
SA_enterAssignment(st, an, property_name, value, line) ==
    LET lhs == EE_evaluate_expression(st, <<"this">>, line)
        an1 == SA_ev_errors(an, lhs.errors)
    IN IF lhs.type = "class" /\ an.current_class.some
       THEN LET v == EE_evaluate_expression(st, value, line)
                an2 == SA_ev_errors(an1, v.errors)
            IN IF ~DictHas(an.current_class.attributes, property_name)
               THEN [st |-> ST_define(st, [Symbol(property_name, v.type)
                                           EXCEPT !.is_initialized = TRUE], line).st,
                     an |-> [an2 EXCEPT !.current_class.attributes =
                                DictPut(@, property_name, v.type)]]
               ELSE IF ~EE_are_types_compatible(
                          DictGet(an.current_class.attributes, property_name), v.type)
               THEN [st |-> st, an |-> SA_add_error(an2, line, "Cannot assign to property", property_name)]
               ELSE [st |-> st, an |-> an2]
       ELSE [st |-> st, an |-> SA_add_error(an1, line, "Cannot assign property to non-object type", lhs.type)]

\* enterReturnStatement; e = <<"none">> for a bare `return;`
SA_enterReturnStatement(st, an, e, line) ==
    LET cf == an.current_function IN
    IF ~cf.some
    THEN SA_add_error(an, line, "Return statement must be inside a function", "")
    ELSE LET an1 == [an EXCEPT !.current_function.has_return = TRUE] IN
         IF e[1] # "none"
         THEN IF cf.return_type = "void"
              THEN SA_add_error(an1, line, "Function should not return a value", cf.name)
              ELSE LET r == EE_evaluate_expression(st, e, line)
                       an2 == SA_ev_errors(an1, r.errors)
                   IN IF /\ r.type # "null" /\ r.type # cf.return_type
                         /\ ~(r.type = "class" /\ cf.return_type \in {"string", "integer"})
                      THEN SA_add_error(an2, line, "Function should return another type", cf.name)
                      ELSE an2
         ELSE IF cf.return_type # "void"
              THEN SA_add_error(an1, line, "Function must return a value of type", cf.name)
              ELSE an1

\* ------------------------------------------------------------------------
\* SpecSem: Driver.main walks a parse tree with the analyzer as listener,
\* then decides whether the TAC and MIPS generators run.  The tree is
\* produced node by node: each action is the walker calling one enter or
\* exit handler.  Every node starts on a line of its own.
\* ------------------------------------------------------------------------
SemFuncNames == {"f", "super"}
SemReturnTypes == {"", "integer", "T"}
SemClassNames == {"C"}
SemParents == {"", "D"}
SemVarNames == {"x"}
SemInits == {<<"none">>, <<"int">>, <<"id", "x">>}
SemReturns == {<<"none">>, <<"int">>}

Top == Last(walk.stack)
Walking == driver.phase = "walking" /\ walk.next_line <= MaxNodes

Node(kind, line, back, entered) ==
    [kind |-> kind, line |-> line, back |-> back, entered |-> entered, body |-> FALSE]

\* the walker enters a node: the node is opened and the next node is one
\* line further down
WalkEnter(node) ==
    [walk EXCEPT !.stack = Append(@, node), !.next_line = @ + 1,
                 !.last_exit = NoExit]

\* the walker has visited a leaf statement
WalkLeaf == [walk EXCEPT !.next_line = @ + 1, !.last_exit = NoExit]

\* the walker leaves the open node, whose exit handler found scope `at`
\* current when it called exit_scope
WalkExit(at) ==
    [walk EXCEPT !.stack = Front(@),
                 !.last_exit = [at |-> at, entered |-> Top.entered, back |-> Top.back]]

InitSem ==
    /\ symbol_table = ST_new
    /\ st_call = NoCall
    /\ analyzer = SA_new
    /\ walk = Walk_new
    /\ driver = Driver_new
    /\ tac_generator = NotCreated
    /\ mips_generator = NotCreated

SemEnterFunctionDeclaration ==
    \E func_name \in SemFuncNames, type_text \in SemReturnTypes :
        LET r == SA_enterFunctionDeclaration(symbol_table, analyzer, func_name,
                                             type_text, walk.next_line) IN
        /\ Walking
        /\ Top.kind \in {"program", "block", "class"}
        /\ Len(symbol_table.scopes) + 2 <= MaxSemScopes
        /\ symbol_table' = r.st
        /\ analyzer' = r.an
        /\ walk' = WalkEnter(Node("function", walk.next_line,
                                  symbol_table.current_scope, r.entered))
        /\ UNCHANGED <<st_call, driver, tac_generator, mips_generator>>

SemExitFunctionDeclaration ==
    LET r == SA_exitFunctionDeclaration(symbol_table, analyzer, Top.line) IN
    /\ driver.phase = "walking"
    /\ Top.kind = "function" /\ Top.body
    /\ symbol_table' = r.st
    /\ analyzer' = r.an
    /\ walk' = WalkExit(symbol_table.current_scope)
    /\ UNCHANGED <<st_call, driver, tac_generator, mips_generator>>

SemEnterClassDeclaration ==
    \E class_name \in SemClassNames, parent_class \in SemParents :
        LET r == SA_enterClassDeclaration(symbol_table, analyzer, class_name,
                                          parent_class, walk.next_line) IN
        /\ Walking
        /\ Top.kind \in {"program", "block"}
        /\ Len(symbol_table.scopes) + 1 <= MaxSemScopes
        /\ symbol_table' = r.st
        /\ analyzer' = r.an
        /\ walk' = WalkEnter(Node("class", walk.next_line,
                                  symbol_table.current_scope, r.entered))
        /\ UNCHANGED <<st_call, driver, tac_generator, mips_generator>>

SemExitClassDeclaration ==
    LET r == SA_exitClassDeclaration(symbol_table, analyzer) IN
    /\ driver.phase = "walking"
    /\ Top.kind = "class"
    /\ symbol_table' = r.st
    /\ analyzer' = r.an
    /\ walk' = WalkExit(symbol_table.current_scope)
    /\ UNCHANGED <<st_call, driver, tac_generator, mips_generator>>

SemEnterInitMethod ==
    LET r == SA_enterInitMethod(symbol_table, analyzer, walk.next_line) IN
    /\ Walking
    /\ Top.kind = "class"
    /\ Len(symbol_table.scopes) + 2 <= MaxSemScopes
    /\ symbol_table' = r.st
    /\ analyzer' = r.an
    /\ walk' = WalkEnter(Node("init", walk.next_line,
                              symbol_table.current_scope, r.entered))
    /\ UNCHANGED <<st_call, driver, tac_generator, mips_generator>>

SemExitInitMethod ==
    LET r == SA_exitInitMethod(symbol_table, analyzer) IN
    /\ driver.phase = "walking"
    /\ Top.kind = "init" /\ Top.body
    /\ symbol_table' = r.st
    /\ analyzer' = r.an
    /\ walk' = WalkExit(symbol_table.current_scope)
    /\ UNCHANGED <<st_call, driver, tac_generator, mips_generator>>

\* The body of a function or constructor is one Block; a Block is also a
\* statement of the program or of another Block.
SemEnterBlock ==
    /\ Walking
    /\ \/ Top.kind \in {"function", "init"} /\ ~Top.body
       \/ Top.kind \in {"program", "block"}
    /\ Len(symbol_table.scopes) + 1 <= MaxSemScopes
    /\ symbol_table' = SA_enterBlock(symbol_table)
    /\ walk' = [WalkEnter(Node("block", walk.next_line, symbol_table.current_scope,
                               Len(symbol_table.scopes) + 1))
                EXCEPT !.stack[Len(walk.stack)].body = TRUE]
    /\ UNCHANGED <<st_call, analyzer, driver, tac_generator, mips_generator>>

SemExitBlock ==
    /\ driver.phase = "walking"
    /\ Top.kind = "block"
    /\ symbol_table' = SA_exitBlock(symbol_table)
    /\ walk' = WalkExit(symbol_table.current_scope)
    /\ UNCHANGED <<st_call, analyzer, driver, tac_generator, mips_generator>>

SemVariableDeclaration ==
    \E var_name \in SemVarNames, type_text \in {"", "integer"}, init \in SemInits :
        LET r == SA_enterVariableDeclaration(symbol_table, analyzer, var_name,
                                             type_text, init, walk.next_line) IN
        /\ Walking
        /\ Top.kind \in {"program", "block", "class"}
        /\ symbol_table' = r.st
        /\ analyzer' = r.an
        /\ walk' = WalkLeaf
        /\ UNCHANGED <<st_call, driver, tac_generator, mips_generator>>

SemAssignment ==
    \E property_name \in SemVarNames :
        LET r == SA_enterAssignment(symbol_table, analyzer, property_name,
                                    <<"int">>, walk.next_line) IN
        /\ Walking
        /\ Top.kind \in {"program", "block"}
        /\ symbol_table' = r.st
        /\ analyzer' = r.an
        /\ walk' = WalkLeaf
        /\ UNCHANGED <<st_call, driver, tac_generator, mips_generator>>

SemReturnStatement ==
    \E e \in SemReturns :
        /\ Walking
        /\ Top.kind \in {"program", "block"}
        /\ analyzer' = SA_enterReturnStatement(symbol_table, analyzer, e, walk.next_line)
        /\ walk' = WalkLeaf
        /\ UNCHANGED <<symbol_table, st_call, driver, tac_generator, mips_generator>>

\* exitProgram: the walk is over.  _validate_function_calls has nothing to
\* validate, the modelled programs holding no call expression.
SemExitProgram ==
    /\ driver.phase = "walking"
    /\ Len(walk.stack) = 1
    /\ driver' = [driver EXCEPT !.phase = "walked"]
    /\ walk' = [walk EXCEPT !.last_exit = NoExit]
    /\ UNCHANGED <<symbol_table, st_call, analyzer, tac_generator, mips_generator>>

\* Driver.main after the walk: report the errors, or run the TAC generator
\* and, with --mips, the MIPS generator
DriverReport ==
    \E generate_mips \in BOOLEAN :
        /\ driver.phase = "walked"
        /\ driver' = IF SA_has_errors(analyzer)
                     THEN [driver EXCEPT !.phase = "failed",
                                         !.generate_mips = generate_mips]
                     ELSE [driver EXCEPT !.phase = "compiled",
                                         !.generate_mips = generate_mips,
                                         !.tac_run = TRUE,
                                         !.mips_run = generate_mips]
        /\ UNCHANGED <<symbol_table, st_call, analyzer, walk, tac_generator, mips_generator>>

NextSem ==
    \/ SemEnterFunctionDeclaration \/ SemExitFunctionDeclaration
    \/ SemEnterClassDeclaration \/ SemExitClassDeclaration
    \/ SemEnterInitMethod \/ SemExitInitMethod
    \/ SemEnterBlock \/ SemExitBlock
    \/ SemVariableDeclaration \/ SemAssignment \/ SemReturnStatement
    \/ SemExitProgram \/ DriverReport

SpecSem == InitSem /\ [][NextSem]_vars

\* C1: when a diagnostic has been recorded by the analyzer, by the symbol
\* table or by the expression evaluator, neither the TAC generator nor the
\* MIPS generator is run.
C1_NoOutputOnDiagnostics ==
    (driver.tac_run \/ driver.mips_run) =>
        /\ Len(analyzer.errors) = 0
        /\ Len(symbol_table.errors) = 0
        /\ Len(analyzer.ev_errors) = 0

\* C2: the exit_scope of an exit handler leaves the scope that the matching
\* enter handler entered and makes current again the scope that was current
\* before the node; it is never called while the global scope is current.
C2_ScopesMatched ==
    walk.last_exit.at # 0 =>
        /\ walk.last_exit.at # 1
        /\ walk.last_exit.at = walk.last_exit.entered
        /\ symbol_table.current_scope = walk.last_exit.back

\* ------------------------------------------------------------------------
\* TACCodeGenerator.py
\*
\* The text of an expression (ctx.getText(), which holds no white space) is
\* the sequence of its tokens.  The tokens of the modelled programs are
\* identifiers, digits, "true", "false", "new", "(", ")", ",", ".", "!", "||",
\* "&&", "<", "==" and "+": no token is part of another one, so that the
\* Python tests `op in text`, text.startswith(op), text.rfind(op) and
\* text.split(op) are the same tests on the token sequence.
\*
\* An operand of a TAC line is [k, s, n]: a temporary t<n>, a slot fp[<n>]
\* or G[<n>], a number <n>, the return register R, or a name <s>.  A TAC
\* line is the record of the format string that emit was given (f) and of
\* the values that fill it.
\* ------------------------------------------------------------------------
Digits == {"0", "1", "2"}
Idents == {"a", "b", "c", "f", "g", "h", "m", "o", "x", "y", "C", "D"}
AlnumToks == Idents \cup Digits \cup {"true", "false", "new", "this"}

Opd(k, s, n) == [k |-> k, s |-> s, n |-> n]
NoOpd == Opd("none", "", 0)
Tmp(n) == Opd("t", "", n)
DigitValue(tok) == IF tok = "0" THEN 0 ELSE IF tok = "1" THEN 1 ELSE 2
Num(text) == Opd("num", "", DigitValue(text[1]))

Line(f, s, n, a, op, b, c) ==
    [f |-> f, s |-> s, n |-> n, a |-> a, op |-> op, b |-> b, c |-> c]

\* str.isalnum, str.isdigit, `tok in text`, and the string that a token
\* sequence spells
IsAlnum(text) == Len(text) > 0 /\ \A i \in 1..Len(text) : text[i] \in AlnumToks
IsDigit(text) == Len(text) > 0 /\ \A i \in 1..Len(text) : text[i] \in Digits
Has(text, tok) == \E i \in 1..Len(text) : text[i] = tok
RECURSIVE Spell(_)
Spell(text) == IF text = <<>> THEN "" ELSE text[1] \o Spell(Tail(text))

\* TACCodeGenerator.__init__
TAC_new ==
    [instructions |-> <<>>, temp_counter |-> 0, label_counter |-> 0,
     if_counter |-> 0, while_counter |-> 0,
     current_function |-> "", function_stack |-> <<>>, loop_labels |-> <<>>,
     global_variables |-> {}, local_variables |-> {},
     current_global_offset |-> 0, current_local_offset |-> 0,
     scope_stack |-> <<"global">>, scope_variables |-> {},
     expression_results |-> {}, current_class |-> ""]

\* emit (the tab that indents a line inside a function is not modelled: the
\* reader of the text strips every line)
emit(g, line) == [g EXCEPT !.instructions = Append(@, line)]

emit_label(g, label) == emit(g, Line("label", label, 0, NoOpd, "", NoOpd, NoOpd))
emit_goto(g, label) == emit(g, Line("GOTO", label, 0, NoOpd, "", NoOpd, NoOpd))
emit_if_goto(g, condition, label) ==
    emit(g, Line("IF", label, 0, condition, "", NoOpd, NoOpd))
emit_assign(g, target, source) ==
    emit(g, Line(":=", "", 0, target, "", source, NoOpd))
emit_binary_op(g, result, left, op, right) ==
    emit(g, Line("binop", "", 0, result, op, left, right))
emit_param(g, arg) == emit(g, Line("PARAM", "", 0, arg, "", NoOpd, NoOpd))
emit_call(g, func_name, num_params) ==
    emit(g, Line("CALL", func_name, num_params, NoOpd, "", NoOpd, NoOpd))

\* new_temp: [g, r]
new_temp(g) == [g |-> [g EXCEPT !.temp_counter = @ + 1], r |-> Tmp(g.temp_counter)]

\* new_label: [g, r]
new_label(g, prefix) ==
    [g |-> [g EXCEPT !.label_counter = @ + 1],
     r |-> prefix \o "_" \o ToString(g.label_counter)]

\* _get_type_size
get_type_size(var_type) ==
    CASE var_type = "integer" -> 4
      [] var_type = "float" -> 8
      [] var_type = "boolean" -> 1
      [] var_type = "string" -> 8
      [] var_type = "void" -> 0
      [] OTHER -> 4

\* new_variable_slot: [g, r]
new_variable_slot(g, var_name, var_type) ==
    IF Last(g.scope_stack) = "global"
    THEN [g |-> [g EXCEPT !.global_variables = DictPut(@, var_name, g.current_global_offset),
                          !.scope_variables = DictPut(@, <<"global", var_name>>, g.current_global_offset),
                          !.current_global_offset = @ + get_type_size(var_type)],
          r |-> Opd("G", "", g.current_global_offset)]
    ELSE [g |-> [g EXCEPT !.local_variables = DictPut(@, var_name, g.current_local_offset),
                          !.scope_variables = DictPut(@, <<Last(g.scope_stack), var_name>>, g.current_local_offset),
                          !.current_local_offset = @ + get_type_size(var_type)],
          r |-> Opd("fp", "", g.current_local_offset)]

\* get_variable_slot / get_variable_slot_lazy (classes of the modelled
\* programs declare no fields): [g, r]
get_variable_slot(g, var_name) ==
    LET current_scope == Last(g.scope_stack) IN
    IF current_scope # "global" /\ DictHas(g.scope_variables, <<current_scope, var_name>>)
    THEN [g |-> g, r |-> Opd("fp", "", DictGet(g.scope_variables, <<current_scope, var_name>>))]
    ELSE IF DictHas(g.local_variables, var_name) /\ current_scope # "global"
    THEN [g |-> g, r |-> Opd("fp", "", DictGet(g.local_variables, var_name))]
    ELSE IF DictHas(g.global_variables, var_name)
    THEN [g |-> g, r |-> Opd("G", "", DictGet(g.global_variables, var_name))]
    ELSE new_variable_slot(g, var_name, "integer")

\* text.find(tok) and text.rfind(tok) as token positions (0: not found)
Find(text, tok) ==
    IF Has(text, tok) THEN CHOOSE i \in 1..Len(text) :
                              text[i] = tok /\ \A j \in 1..(i - 1) : text[j] # tok
    ELSE 0
RFind(text, tok) ==
    IF Has(text, tok) THEN CHOOSE i \in 1..Len(text) :
                              text[i] = tok /\ \A j \in (i + 1)..Len(text) : text[j] # tok
    ELSE 0

\* text.rstrip(")")
RECURSIVE RStrip(_)
RStrip(text) ==
    IF text # <<>> /\ Last(text) = ")" THEN RStrip(Front(text)) ELSE text

\* [arg.strip() for arg in text.split(",") if arg.strip()]
RECURSIVE SplitArgs(_)
SplitArgs(text) ==
    LET i == Find(text, ",") IN
    IF i = 0 THEN (IF text = <<>> THEN <<>> ELSE <<text>>)
    ELSE (IF i = 1 THEN <<>> ELSE <<SubSeq(text, 1, i - 1)>>)
         \o SplitArgs(SubSeq(text, i + 1, Len(text)))

BinaryOps == {"||", "&&", "==", "<", "+"}
HasBinaryOp(text) == \E op \in BinaryOps : Has(text, op)

\* _are_parentheses_balanced
RECURSIVE paren_count(_, _, _)
paren_count(text, i, count) ==
    IF i > Len(text) THEN count
    ELSE IF text[i] = "(" THEN paren_count(text, i + 1, count + 1)
    ELSE IF text[i] = ")"
    THEN (IF count - 1 < 0 THEN -1 ELSE paren_count(text, i + 1, count - 1))
    ELSE paren_count(text, i + 1, count)
are_parentheses_balanced(text) == paren_count(text, 1, 0) = 0

\* text.startswith("(") and text.endswith(")") and
\* _are_parentheses_balanced(text[1:-1]); and text[1:-1]
Parenthesised(text) ==
    /\ text # <<>> /\ text[1] = "(" /\ Last(text) = ")"
    /\ are_parentheses_balanced(SubSeq(text, 2, Len(text) - 1))
Inside(text) == SubSeq(text, 2, Len(text) - 1)

\* _find_operator_outside_parentheses: the scan from position i down to 1
NoSplit == [found |-> FALSE, left |-> <<>>, right |-> <<>>, op |-> ""]
RECURSIVE find_operator_outside_parentheses(_, _, _, _)
find_operator_outside_parentheses(text, operators, i, paren_depth) ==
    IF i < 1 THEN NoSplit
    ELSE IF paren_depth = 0 /\ text[i] \in operators /\ i > 1 /\ i < Len(text)
    THEN [found |-> TRUE, left |-> SubSeq(text, 1, i - 1),
          right |-> SubSeq(text, i + 1, Len(text)), op |-> text[i]]
    ELSE find_operator_outside_parentheses(
             text, operators, i - 1,
             IF text[i] = ")" THEN paren_depth + 1
             ELSE IF text[i] = "(" THEN paren_depth - 1 ELSE paren_depth)

\* the first group of operators_by_precedence with an operator outside
\* parentheses
operators_by_precedence == <<{"||"}, {"&&"}, {"=="}, {"<"}, {"+"}>>
RECURSIVE best_split(_, _)
best_split(text, k) ==
    LET Or(s) == IF s.found THEN s ELSE best_split(text, k + 1) IN
    IF k > Len(operators_by_precedence) THEN NoSplit
    ELSE Or(find_operator_outside_parentheses(
                text, operators_by_precedence[k], Len(text), 0))

\* a result [g, r]: the generator after the call and the value returned
\* (NoOpd for None)
Ret(g, r) == [g |-> g, r |-> r]

\* self.<method>(<args>): a method of the generator g that calls other
\* methods of the generator is called by its name
RECURSIVE self(_, _, _)

RECURSIVE emit_arguments(_, _)

\* the loop `for arg in args: arg_result = _evaluate_simple_operand(arg);
\* emit PARAM arg_result`
emit_arguments(g, args) ==
    LET Param(a) == emit_param(a.g, a.r) IN
    IF args = <<>> THEN g
    ELSE emit_arguments(Param(self("_evaluate_simple_operand", g, <<args[1]>>)), Tail(args))

\* _parse_binary_expression: [g, r]
parse_binary_expression(g, text) ==
    LET Assigned(t) == Ret(emit_assign(t.g, t.r, Opd("R", "", 0)), t.r)
        Call(func_name, args) ==
            Assigned(new_temp(emit_call(emit_arguments(g, args),
                                        Spell(func_name), Len(args))))
        Emitted(l, r, op, t) == Ret(emit_binary_op(t.g, t.r, l.r, op, r.r), t.r)
        Right(l, r, op) == Emitted(l, r, op, new_temp(r.g))
        Left(l, s) ==
            Right(l, self("_parse_expression_with_precedence", l.g, <<s.right>>), s.op)
        Split(s) == IF s.found
                    THEN Left(self("_parse_expression_with_precedence", g, <<s.left>>), s)
                    ELSE Ret(g, NoOpd)
    IN IF text = <<>> THEN Ret(g, NoOpd)
       ELSE IF Parenthesised(text)
       THEN self("_parse_binary_expression", g, <<Inside(text)>>)
       ELSE IF Has(text, "(") /\ Has(text, ")") /\ ~HasBinaryOp(text)
       THEN Call(SubSeq(text, 1, Find(text, "(") - 1),
                 SplitArgs(RStrip(SubSeq(text, Find(text, "(") + 1, Len(text)))))
       ELSE Split(best_split(text, 1))

\* the literals and names that _parse_expression_with_precedence,
\* _evaluate_simple_operand, _evaluate_from_children and
\* _evaluate_expression return at once
IsSimple(text) ==
    IsDigit(text) \/ text = <<"true">> \/ text = <<"false">> \/ IsAlnum(text)
Simple(g, text) ==
    IF IsDigit(text) THEN Ret(g, Num(text))
    ELSE IF text = <<"true">> THEN Ret(g, Opd("num", "", 1))
    ELSE IF text = <<"false">> THEN Ret(g, Opd("num", "", 0))
    ELSE get_variable_slot(g, Spell(text))

\* _parse_expression_with_precedence: [g, r]
parse_expression_with_precedence(g, expr) ==
    LET Or(result) == IF result.r # NoOpd THEN result
                      ELSE self("_evaluate_simple_operand", result.g, <<expr>>)
    IN IF IsSimple(expr) THEN Simple(g, expr)
       ELSE Or(self("_parse_binary_expression", g, <<expr>>))

\* the two `while` loops of _evaluate_simple_operand that remove an
\* unmatched outer parenthesis
RECURSIVE strip_unbalanced(_)
strip_unbalanced(operand) ==
    IF operand # <<>> /\ operand[1] = "(" /\ Last(operand) # ")"
    THEN strip_unbalanced(Tail(operand))
    ELSE IF operand # <<>> /\ Last(operand) = ")" /\ operand[1] # "("
    THEN strip_unbalanced(Front(operand))
    ELSE operand

\* _evaluate_simple_operand: [g, r]
evaluate_simple_operand(g, text) ==
    LET Or(complex_result) ==
            IF complex_result.r # NoOpd THEN complex_result
            ELSE Ret(complex_result.g, Opd("num", "", 0))
        Eval(operand) ==
            IF Parenthesised(operand)
            THEN self("_parse_expression_with_precedence", g, <<Inside(operand)>>)
            ELSE IF IsSimple(operand) THEN Simple(g, operand)
            ELSE Or(self("_parse_binary_expression", g, <<operand>>))
    IN Eval(strip_unbalanced(text))

\* _evaluate_expression, for an ExpressionContext (with_children) or for a
\* MockContext made from a piece of text: [g, r].  _evaluate_from_children
\* is the textual parser, then the only child of the ExpressionContext as a
\* simple operand.
evaluate_expression(g, text, with_children) ==
    LET Fallback(again) ==
            IF again.r # NoOpd THEN again ELSE Ret(again.g, Opd("num", "", 0))
        AfterChildren(result) ==
            IF result.r # NoOpd /\ result.r # Opd("num", "", 0) THEN result
            ELSE Fallback(self("_parse_binary_expression", result.g, <<text>>))
        Children(result) ==
            AfterChildren(IF with_children /\ result.r = NoOpd
                          THEN self("_evaluate_simple_operand", result.g, <<text>>)
                          ELSE result)
        Rest(result) ==
            IF result.r # NoOpd THEN result
            ELSE IF IsSimple(text) THEN Simple(result.g, text)
            ELSE Children(IF with_children
                          THEN self("_parse_binary_expression", result.g, <<text>>)
                          ELSE Ret(result.g, NoOpd))
    IN Rest(IF HasBinaryOp(text) THEN self("_parse_binary_expression", g, <<text>>)
            ELSE Ret(g, NoOpd))

\* visit_expression; ctx_id = 0 for a MockContext, an object that is not
\* met again: [g, r]
visit_expression(g, ctx_id, text) ==
    LET Cached(result) ==
            IF ctx_id = 0 THEN result
            ELSE Ret([result.g EXCEPT !.expression_results =
                          DictPut(@, ctx_id, result.r)],
                     result.r)
    IN IF ctx_id # 0 /\ DictHas(g.expression_results, ctx_id)
       THEN Ret(g, DictGet(g.expression_results, ctx_id))
       ELSE Cached(self("_evaluate_expression", g, <<text, ctx_id # 0>>))

\* _split_logical_expression: the text before and after the last operator
split_logical_expression(text, operator) ==
    LET Halves(index) ==
            IF index > 1
            THEN [left |-> SubSeq(text, 1, index - 1),
                  right |-> SubSeq(text, index + 1, Len(text))]
            ELSE [left |-> <<>>, right |-> <<>>]
    IN Halves(RFind(text, operator))

\* `IF <condition> > 0 GOTO true_label` then `GOTO false_label`
Jump(result, true_label, false_label) ==
    emit_goto(emit_if_goto(result.g, result.r, true_label), false_label)

\* _evaluate_or_expression
evaluate_or_expression(g, text, true_label, false_label) ==
    LET Second(g1, s, continue_label) ==
            self("evaluate_boolean_expression", emit_label(g1, continue_label),
                 <<0, s.right, true_label, false_label>>)
        Halves(s, continue_label) ==
            IF s.left # <<>> /\ s.right # <<>>
            THEN Second(self("evaluate_boolean_expression", continue_label.g,
                             <<0, s.left, true_label, continue_label.r>>),
                        s, continue_label.r)
            ELSE g
    IN Halves(split_logical_expression(text, "||"), new_label(g, "OR_CONTINUE"))

\* _evaluate_and_expression
evaluate_and_expression(g, text, true_label, false_label) ==
    LET Second(g1, s, intermediate_label) ==
            self("evaluate_boolean_expression", emit_label(g1, intermediate_label),
                 <<0, s.right, true_label, false_label>>)
        Halves(s, intermediate_label) ==
            IF s.left # <<>> /\ s.right # <<>>
            THEN Second(self("evaluate_boolean_expression", intermediate_label.g,
                             <<0, s.left, intermediate_label.r, false_label>>),
                        s, intermediate_label.r)
            ELSE g
    IN Halves(split_logical_expression(text, "&&"), new_label(g, "AND_CONTINUE"))

\* _evaluate_relational_expression ("==" is looked for before "<")
evaluate_relational_expression(g, text, true_label, false_label) ==
    LET Compare(l, r, op, temp) ==
            Jump(Ret(emit_binary_op(temp.g, temp.r, l.r, op, r.r), temp.r),
                 true_label, false_label)
        Right(l, r, op) == Compare(l, r, op, new_temp(r.g))
        Left(l, i, op) ==
            Right(l, self("_evaluate_simple_operand", l.g,
                          <<SubSeq(text, i + 1, Len(text))>>), op)
        Op(op, i) ==
            Left(self("_evaluate_simple_operand", g, <<SubSeq(text, 1, i - 1)>>), i, op)
        At(op) == Op(op, Find(text, op))
    IN At(IF Has(text, "==") THEN "==" ELSE "<")

\* evaluate_boolean_expression: jump code for the condition `text`
evaluate_boolean_expression(g, ctx_id, text, true_label, false_label) ==
    LET Not(inner) ==
            self("evaluate_boolean_expression", g,
                 <<0,
                   IF inner # <<>> /\ inner[1] = "(" /\ Last(inner) = ")"
                   THEN Inside(inner) ELSE inner,
                   false_label, true_label>>)
    IN IF text = <<"true">> THEN emit_goto(g, true_label)
       ELSE IF text = <<"false">> THEN emit_goto(g, false_label)
       ELSE IF text # <<>> /\ text[1] = "!" THEN Not(Tail(text))
       ELSE IF IsAlnum(text) /\ ~IsDigit(text)
       THEN Jump(get_variable_slot(g, Spell(text)), true_label, false_label)
       ELSE IF Has(text, "||")
       THEN self("_evaluate_or_expression", g, <<text, true_label, false_label>>)
       ELSE IF Has(text, "&&")
       THEN self("_evaluate_and_expression", g, <<text, true_label, false_label>>)
       ELSE IF Has(text, "==") \/ Has(text, "<")
       THEN self("_evaluate_relational_expression", g, <<text, true_label, false_label>>)
       ELSE Jump(self("visit_expression", g, <<ctx_id, text>>), true_label, false_label)


\* ------------------------------------------------------------------------
\* Parse tree nodes of the programs given to the generator.  The Block of
\* a function, of a loop or of an if branch is not a node of its own (the
\* generator's enterBlock and exitBlock change nothing): kids are the
\* statements inside; for an if statement kids are the nthen statements of
\* the then-block followed by those of the else-block.  id stands for
\* id(ctx.expression()), the key of expression_results.
\* ------------------------------------------------------------------------
Ctx ==
    [id |-> 0, kind |-> "", name |-> "", type |-> "", params |-> <<>>,
     text |-> <<>>, kids |-> <<>>, nthen |-> 0, has_else |-> FALSE]

VariableDeclaration(id, name, type, text) ==
    [Ctx EXCEPT !.id = id, !.kind = "var", !.name = name, !.type = type, !.text = text]
ExpressionStatement(id, text) == [Ctx EXCEPT !.id = id, !.kind = "expr", !.text = text]
PrintStatement(id, text) == [Ctx EXCEPT !.id = id, !.kind = "print", !.text = text]
ReturnStatement(id, text) == [Ctx EXCEPT !.id = id, !.kind = "return", !.text = text]
IfStatement(id, text, then_block, else_block, has_else) ==
    [Ctx EXCEPT !.id = id, !.kind = "if", !.text = text,
                !.kids = then_block \o else_block, !.nthen = Len(then_block),
                !.has_else = has_else]
WhileStatement(id, text, block) ==
    [Ctx EXCEPT !.id = id, !.kind = "while", !.text = text, !.kids = block]
FunctionDeclaration(name, params, block) ==
    [Ctx EXCEPT !.kind = "function", !.name = name, !.params = params, !.kids = block]
ClassDeclaration(name, members) ==
    [Ctx EXCEPT !.kind = "class", !.name = name, !.kids = members]
InitMethod(params, block) ==
    [Ctx EXCEPT !.kind = "init", !.params = params, !.kids = block]

\* the slots that a function's scope starts with
function_scope(g, current_scope, locals) ==
    [g EXCEPT !.scope_stack = Append(@, current_scope),
              !.scope_variables = {p \in @ : p[1][1] # current_scope}
                  \cup {<<(<<current_scope, q[1]>>), q[2]>> : q \in locals},
              !.local_variables = locals]

\* enterFunctionDeclaration
TAC_enterFunctionDeclaration(g, ctx) ==
    LET is_class_method == g.current_class # ""
        first == IF is_class_method THEN 2 ELSE 1
        locals == (IF is_class_method THEN {<<"this", -1>>} ELSE {})
                  \cup {<<ctx.params[i], -(first + i - 1)>> : i \in 1..Len(ctx.params)}
        g1 == [function_scope(g, "function_" \o ctx.name, locals)
                  EXCEPT !.current_function = ctx.name,
                         !.function_stack = Append(@, ctx.name),
                         !.current_local_offset = 0,
                         !.temp_counter = 0]
    IN emit(g1, Line("FUNCTION", ctx.name, 0, NoOpd, "", NoOpd, NoOpd))

\* the tail of exitFunctionDeclaration and of exitInitMethod: leave the
\* function's scope
leave_function(g) ==
    [g EXCEPT !.scope_stack = IF Len(@) > 1 THEN Front(@) ELSE @,
              !.function_stack = Front(@),
              !.current_function = IF Len(g.function_stack) > 1
                                   THEN g.function_stack[Len(g.function_stack) - 1]
                                   ELSE ""]

\* exitFunctionDeclaration (a FunctionDeclarationContext has no
\* typeAnnotation attribute, so return_type stays "void" and no RETURN is
\* added)
TAC_exitFunctionDeclaration(g) ==
    IF g.current_function # ""
    THEN leave_function(emit(g, Line("END FUNCTION", g.current_function, 0,
                                     NoOpd, "", NoOpd, NoOpd)))
    ELSE g

\* enterVariableDeclaration; ctx.name is the variable, ctx.type its
\* annotation, ctx.text its initializer (empty: none)
TAC_enterVariableDeclaration(g, ctx) ==
    LET Assign(slot, result) == emit_assign(result.g, slot.r, result.r)
        Init(slot) ==
            IF ctx.text # <<>>
            THEN Assign(slot, self("visit_expression", slot.g, <<ctx.id, ctx.text>>))
            ELSE slot.g
    IN Init(new_variable_slot(g, ctx.name,
                              IF ctx.type = "" THEN "integer" ELSE ctx.type))

\* _process_function_call_statement
process_function_call_statement(g, call_text) ==
    LET Assigned(result) == emit_assign(result.g, result.r, Opd("R", "", 0))
        This(obj_slot) == emit_param(obj_slot.g, obj_slot.r)
        Call(func_name, args, dot_pos) ==
            Assigned(new_temp(
                emit_call(emit_arguments(
                              IF dot_pos # 0
                              THEN This(get_variable_slot(
                                            g, Spell(SubSeq(func_name, 1, dot_pos - 1))))
                              ELSE g,
                              args),
                          Spell(SubSeq(func_name, dot_pos + 1, Len(func_name))),
                          (IF dot_pos # 0 THEN 1 ELSE 0) + Len(args))))
        Named(func_name, args) == Call(func_name, args, Find(func_name, "."))
        At(i) == Named(SubSeq(call_text, 1, i - 1),
                       SplitArgs(RStrip(SubSeq(call_text, i + 1, Len(call_text)))))
    IN At(Find(call_text, "("))

\* enterExpressionStatement
TAC_enterExpressionStatement(g, ctx) ==
    IF Has(ctx.text, "(") /\ Has(ctx.text, ")")
    THEN self("_process_function_call_statement", g, <<ctx.text>>)
    ELSE self("visit_expression", g, <<ctx.id, ctx.text>>).g

\* enterPrintStatement
TAC_enterPrintStatement(g, ctx) ==
    LET Printed(result) == emit(result.g, Line("PRINT", "", 0, result.r, "", NoOpd, NoOpd))
    IN Printed(self("visit_expression", g, <<ctx.id, ctx.text>>))

\* enterReturnStatement; ctx.text is empty for a bare `return;`
TAC_enterReturnStatement(g, ctx) ==
    LET Returned(result) ==
            emit(result.g, Line("RETURN", "", 1, result.r, "", NoOpd, NoOpd))
    IN IF ctx.text # <<>>
       THEN Returned(self("visit_expression", g, <<ctx.id, ctx.text>>))
       ELSE emit(g, Line("RETURN", "", 0, NoOpd, "", NoOpd, NoOpd))

\* enterWhileStatement
TAC_enterWhileStatement(g, ctx) ==
    LET while_id == ToString(g.while_counter)
        start_label == "STARTWHILE_" \o while_id
        true_label == "LABEL_TRUE_" \o while_id
        end_label == "ENDWHILE_" \o while_id
    IN [emit_label(Jump(self("visit_expression",
                             emit_label([g EXCEPT !.while_counter = @ + 1], start_label),
                             <<ctx.id, ctx.text>>),
                        true_label, end_label),
                   true_label)
           EXCEPT !.loop_labels = Append(@, <<start_label, end_label>>)]

\* exitWhileStatement
TAC_exitWhileStatement(g) ==
    IF g.loop_labels = <<>> THEN g
    ELSE LET start_label == Last(g.loop_labels)[1]
             end_label == Last(g.loop_labels)[2]
         IN emit_label(emit_goto([g EXCEPT !.loop_labels = Front(@)], start_label),
                       end_label)

\* the head of enterIfStatement: the labels IF_TRUE_k, IF_FALSE_k and
\* IF_END_k, and the jump code of the condition with its targets
\* (B.true, B.false)
if_condition(g, ctx) ==
    LET if_id == ToString(g.if_counter)
        true_label == "IF_TRUE_" \o if_id
        false_label == "IF_FALSE_" \o if_id
        end_label == "IF_END_" \o if_id
        is_negated == ctx.text # <<>> /\ ctx.text[1] = "!"
        b_false == IF ctx.has_else \/ is_negated THEN false_label ELSE end_label
    IN [g |-> self("evaluate_boolean_expression", [g EXCEPT !.if_counter = @ + 1],
                   <<ctx.id, ctx.text, true_label, b_false>>),
        true_label |-> true_label, false_label |-> false_label,
        end_label |-> end_label, b_false |-> b_false, is_negated |-> is_negated]

RECURSIVE process_block_statements(_, _)

\* _process_statement (the modelled programs hold no assignment statement,
\* the only statement whose handler asks _is_already_processed)
process_statement(g, stmt_ctx) ==
    CASE stmt_ctx.kind = "var" -> self("enterVariableDeclaration", g, <<stmt_ctx>>)
      [] stmt_ctx.kind = "expr" -> self("enterExpressionStatement", g, <<stmt_ctx>>)
      [] stmt_ctx.kind = "print" -> self("enterPrintStatement", g, <<stmt_ctx>>)
      [] stmt_ctx.kind = "return" -> self("enterReturnStatement", g, <<stmt_ctx>>)
      [] stmt_ctx.kind = "if" -> self("enterIfStatement", g, <<stmt_ctx>>)
      [] stmt_ctx.kind = "while" -> self("enterWhileStatement", g, <<stmt_ctx>>)
      [] OTHER -> g

\* _process_block_statements
process_block_statements(g, statements) ==
    IF statements = <<>> THEN g
    ELSE process_block_statements(self("_process_statement", g, <<statements[1]>>),
                                  Tail(statements))

\* enterIfStatement
TAC_enterIfStatement(g, ctx) ==
    LET then_block == SubSeq(ctx.kids, 1, ctx.nthen)
        else_block == SubSeq(ctx.kids, ctx.nthen + 1, Len(ctx.kids))
        Else(g1, c) ==
            IF ctx.has_else
            THEN emit_label(
                     self("_process_block_statements",
                          emit_label(emit_goto(g1, c.end_label), c.false_label),
                          <<else_block>>),
                     c.end_label)
            ELSE IF c.is_negated
            THEN emit_label(emit_goto(emit_label(g1, c.false_label), c.end_label),
                            c.end_label)
            ELSE emit_label(g1, c.end_label)
        Then(c) == Else(self("_process_block_statements",
                             emit_label(c.g, c.true_label), <<then_block>>), c)
    IN Then(if_condition(g, ctx))

\* enterClassDeclaration (classes without fields)
TAC_enterClassDeclaration(g, ctx) ==
    emit([g EXCEPT !.current_class = ctx.name],
         Line("//", "CLASS " \o ctx.name, 0, NoOpd, "", NoOpd, NoOpd))

\* exitClassDeclaration
TAC_exitClassDeclaration(g) ==
    [emit(g, Line("//", "END CLASS " \o g.current_class, 0, NoOpd, "", NoOpd, NoOpd))
        EXCEPT !.current_class = ""]

\* enterInitMethod
TAC_enterInitMethod(g, ctx) ==
    IF g.current_class = "" THEN g
    ELSE LET constructor_name == g.current_class \o "_init"
             locals == {<<"this", 0>>}
                       \cup {<<ctx.params[i], i * 4>> : i \in 1..Len(ctx.params)}
             g1 == [function_scope(g, "function_" \o constructor_name, locals)
                       EXCEPT !.current_function = constructor_name,
                              !.function_stack = Append(@, constructor_name),
                              !.current_local_offset = 4]
         IN emit(g1, Line("FUNCTION", "init", 0, NoOpd, "", NoOpd, NoOpd))

\* exitInitMethod
TAC_exitInitMethod(g) ==
    IF g.current_function # ""
    THEN leave_function(emit(g, Line("END FUNCTION", "init", 0, NoOpd, "", NoOpd, NoOpd)))
    ELSE g

\* enterProgram and exitProgram
TAC_enterProgram(g) ==
    emit(g, Line("//", "=== COMPISCRIPT PROGRAM ===", 0, NoOpd, "", NoOpd, NoOpd))
TAC_exitProgram(g) ==
    emit(g, Line("//", "=== END OF PROGRAM ===", 0, NoOpd, "", NoOpd, NoOpd))

\* the methods called through self
self(method, g, args) ==
    CASE method = "_parse_binary_expression" -> parse_binary_expression(g, args[1])
      [] method = "_parse_expression_with_precedence" ->
            parse_expression_with_precedence(g, args[1])
      [] method = "_evaluate_simple_operand" -> evaluate_simple_operand(g, args[1])
      [] method = "_evaluate_expression" -> evaluate_expression(g, args[1], args[2])
      [] method = "visit_expression" -> visit_expression(g, args[1], args[2])
      [] method = "evaluate_boolean_expression" ->
            evaluate_boolean_expression(g, args[1], args[2], args[3], args[4])
      [] method = "_evaluate_or_expression" ->
            evaluate_or_expression(g, args[1], args[2], args[3])
      [] method = "_evaluate_and_expression" ->
            evaluate_and_expression(g, args[1], args[2], args[3])
      [] method = "_evaluate_relational_expression" ->
            evaluate_relational_expression(g, args[1], args[2], args[3])
      [] method = "_process_function_call_statement" ->
            process_function_call_statement(g, args[1])
      [] method = "_process_statement" -> process_statement(g, args[1])
      [] method = "_process_block_statements" -> process_block_statements(g, args[1])
      [] method = "enterVariableDeclaration" -> TAC_enterVariableDeclaration(g, args[1])
      [] method = "enterExpressionStatement" -> TAC_enterExpressionStatement(g, args[1])
      [] method = "enterPrintStatement" -> TAC_enterPrintStatement(g, args[1])
      [] method = "enterReturnStatement" -> TAC_enterReturnStatement(g, args[1])
      [] method = "enterIfStatement" -> TAC_enterIfStatement(g, args[1])
      [] method = "enterWhileStatement" -> TAC_enterWhileStatement(g, args[1])

\* ------------------------------------------------------------------------

\* ------------------------------------------------------------------------
\* Boolean conditions.  The expression subtree of an if statement is the
\* tree of its operators: a variable, a comparison v < n, !, &&, || or a
\* parenthesised condition; getText spells its tokens in order.
\* ------------------------------------------------------------------------
Nil == [op |-> "nil"]
BVar(v) == [op |-> "var", v |-> v, n |-> "0", l |-> Nil, r |-> Nil]
BLt(v, n) == [op |-> "<", v |-> v, n |-> n, l |-> Nil, r |-> Nil]
BNot(l) == [op |-> "!", v |-> "", n |-> "0", l |-> l, r |-> Nil]
BPar(l) == [op |-> "()", v |-> "", n |-> "0", l |-> l, r |-> Nil]
BOr(l, r) == [op |-> "||", v |-> "", n |-> "0", l |-> l, r |-> r]
BAnd(l, r) == [op |-> "&&", v |-> "", n |-> "0", l |-> l, r |-> r]

RECURSIVE getText(_)
getText(t) ==
    CASE t.op = "var" -> <<t.v>>
      [] t.op = "<" -> <<t.v, "<", t.n>>
      [] t.op = "!" -> <<"!">> \o getText(t.l)
      [] t.op = "()" -> <<"(">> \o getText(t.l) \o <<")">>
      [] OTHER -> getText(t.l) \o <<t.op>> \o getText(t.r)

\* the value of a condition under a valuation of the variables, and the
\* variables read to find it: the right operand of || is evaluated only
\* when the left one is false, that of && only when the left one is true
RECURSIVE EvalB(_, _)
EvalB(t, val) ==
    CASE t.op = "var" -> [v |-> val[t.v] > 0, reads |-> {t.v}]
      [] t.op = "<" -> [v |-> val[t.v] < DigitValue(t.n), reads |-> {t.v}]
      [] t.op = "!" -> [v |-> ~EvalB(t.l, val).v, reads |-> EvalB(t.l, val).reads]
      [] t.op = "()" -> EvalB(t.l, val)
      [] t.op = "||" ->
            LET l == EvalB(t.l, val) r == EvalB(t.r, val) IN
            IF l.v THEN l ELSE [v |-> r.v, reads |-> l.reads \cup r.reads]
      [] t.op = "&&" ->
            LET l == EvalB(t.l, val) r == EvalB(t.r, val) IN
            IF ~l.v THEN l ELSE [v |-> r.v, reads |-> l.reads \cup r.reads]

\* Execution of jump code: the target among {true_label, false_label} that
\* control reaches from the first line, and the variables read on the way.
\* globals maps the names to their G[] offsets, temps the temporaries to
\* their values.
OperandValue(a, temps, globals, val) ==
    CASE a.k = "num" -> a.n
      [] a.k = "t" -> IF DictHas(temps, a.n) THEN DictGet(temps, a.n) ELSE 0
      [] a.k = "G" -> val[(CHOOSE p \in globals : p[2] = a.n)[1]]
      [] OTHER -> 0
OperandReads(a, globals) ==
    IF a.k = "G" THEN {(CHOOSE p \in globals : p[2] = a.n)[1]} ELSE {}
BinaryValue(op, x, y) ==
    CASE op = "<" -> IF x < y THEN 1 ELSE 0
      [] op = "==" -> IF x = y THEN 1 ELSE 0
      [] op = "+" -> x + y
      [] op = "&&" -> IF x > 0 /\ y > 0 THEN 1 ELSE 0
      [] op = "||" -> IF x > 0 \/ y > 0 THEN 1 ELSE 0

RECURSIVE RunJumpCode(_, _, _, _, _, _, _, _, _)
RunJumpCode(code, pc, temps, reads, fuel, globals, val, true_label, false_label) ==
    LET Goto(label) ==
            IF label = true_label THEN [out |-> "true", reads |-> reads]
            ELSE IF label = false_label THEN [out |-> "false", reads |-> reads]
            ELSE IF \E j \in 1..Len(code) : code[j].f = "label" /\ code[j].s = label
            THEN RunJumpCode(code,
                             CHOOSE j \in 1..Len(code) :
                                 /\ code[j].f = "label" /\ code[j].s = label
                                 /\ \A i \in 1..(j - 1) :
                                        ~(code[i].f = "label" /\ code[i].s = label),
                             temps, reads, fuel - 1, globals, val, true_label, false_label)
            ELSE [out |-> "lost", reads |-> reads]
        Step(temps2, reads2) ==
            RunJumpCode(code, pc + 1, temps2, reads2, fuel - 1, globals, val,
                        true_label, false_label)
    IN IF fuel = 0 \/ pc > Len(code) THEN [out |-> "none", reads |-> reads]
       ELSE LET line == code[pc] IN
            CASE line.f = "GOTO" -> Goto(line.s)
              [] line.f = "IF" ->
                    IF OperandValue(line.a, temps, globals, val) > 0
                    THEN [Goto(line.s) EXCEPT !.reads = @ \cup OperandReads(line.a, globals)]
                    ELSE Step(temps, reads \cup OperandReads(line.a, globals))
              [] line.f = "binop" ->
                    Step(DictPut(temps, line.a.n,
                                 BinaryValue(line.op,
                                             OperandValue(line.b, temps, globals, val),
                                             OperandValue(line.c, temps, globals, val))),
                         reads \cup OperandReads(line.b, globals)
                               \cup OperandReads(line.c, globals))
              [] line.f = ":=" ->
                    Step(DictPut(temps, line.a.n, OperandValue(line.b, temps, globals, val)),
                         reads \cup OperandReads(line.b, globals))
              [] OTHER -> Step(temps, reads)

\* ------------------------------------------------------------------------
\* SpecGen: Driver.main after a successful analysis.  The TAC generator
\* walks the tree of one program, then the MIPS generator is given the
\* TAC text.
\* ------------------------------------------------------------------------
Conds ==
    {BVar("a"), BNot(BVar("a")), BLt("x", "1"), BPar(BVar("a")),
     BOr(BVar("a"), BVar("b")), BAnd(BVar("a"), BVar("b")),
     BOr(BVar("a"), BAnd(BVar("b"), BVar("c"))),
     BOr(BAnd(BVar("a"), BVar("b")), BVar("c")),
     BOr(BOr(BVar("a"), BVar("b")), BVar("c")),
     BAnd(BLt("x", "1"), BVar("a")),
     BOr(BNot(BVar("a")), BVar("b")),
     BAnd(BNot(BVar("a")), BVar("b")),
     BNot(BPar(BOr(BVar("a"), BVar("b")))),
     BAnd(BPar(BOr(BVar("a"), BVar("b"))), BVar("c")),
     BAnd(BVar("a"), BPar(BOr(BVar("b"), BVar("c"))))}

\* let a: boolean = true; let b: boolean = false; let c: boolean = true;
\* let x: integer = 0;
Globals ==
    <<VariableDeclaration(1, "a", "boolean", <<"true">>),
      VariableDeclaration(2, "b", "boolean", <<"false">>),
      VariableDeclaration(3, "c", "boolean", <<"true">>),
      VariableDeclaration(4, "x", "integer", <<"0">>)>>

\* if (cond) { } at top level
CondPrograms == {Globals \o <<IfStatement(5, getText(cond), <<>>, <<>>, FALSE)>> : cond \in Conds}

\* the statements put inside a block
Inner ==
    {PrintStatement(7, <<"1">>),
     VariableDeclaration(7, "y", "integer", <<"1", "+", "2">>),
     ReturnStatement(7, <<>>),
     WhileStatement(7, <<"a">>, <<PrintStatement(8, <<"1">>)>>),
     WhileStatement(7, <<"x", "<", "1">>, <<>>),
     IfStatement(7, <<"b">>, <<PrintStatement(8, <<"2">>)>>, <<>>, FALSE),
     IfStatement(7, <<"!", "b">>, <<>>, <<PrintStatement(8, <<"2">>)>>, TRUE)}

\* function main() { s }, function main() { if (a) { s } } and
\* function main() { if (a) { print(1); } else { s } }
NestPrograms ==
    {Globals \o <<FunctionDeclaration("main", <<>>, <<s>>)>> : s \in Inner}
    \cup {Globals \o <<FunctionDeclaration("main", <<>>,
                          <<IfStatement(6, <<"a">>, <<s>>, <<>>, FALSE)>>)>> : s \in Inner}
    \cup {Globals \o <<FunctionDeclaration("main", <<>>,
                          <<IfStatement(6, <<"a">>, <<PrintStatement(9, <<"1">>)>>,
                                        <<s>>, TRUE)>>)>> : s \in Inner}

\* function f(x, y) { } function g(x) { return x; } function h() { }
\* class C { init(x) { } function m(x) { } }
Callees ==
    <<FunctionDeclaration("f", <<"x", "y">>, <<>>),
      FunctionDeclaration("g", <<"x">>, <<ReturnStatement(10, <<"x">>)>>),
      FunctionDeclaration("h", <<>>, <<>>),
      ClassDeclaration("C", <<InitMethod(<<"x">>, <<>>),
                              FunctionDeclaration("m", <<"x">>, <<>>)>>)>>

\* the statements with calls: h(); f(1, 2); f(g(1), 2); f(1, g(2) + 1);
\* let y: integer = g(1); let y: integer = g(1) + g(2);
\* let o: C = new C(1); print(g(2));
CallStatements ==
    {<<ExpressionStatement(11, <<"h", "(", ")">>)>>,
     <<ExpressionStatement(11, <<"f", "(", "1", ",", "2", ")">>)>>,
     <<ExpressionStatement(11, <<"f", "(", "g", "(", "1", ")", ",", "2", ")">>)>>,
     <<ExpressionStatement(11, <<"f", "(", "1", ",", "g", "(", "2", ")", "+", "1", ")">>)>>,
     <<VariableDeclaration(11, "y", "integer", <<"g", "(", "1", ")">>)>>,
     <<VariableDeclaration(11, "y", "integer",
                           <<"g", "(", "1", ")", "+", "g", "(", "2", ")">>)>>,
     <<VariableDeclaration(11, "o", "C", <<"new", "C", "(", "1", ")">>)>>,
     <<VariableDeclaration(11, "o", "C", <<"new", "C", "(", "1", ")">>),
       ExpressionStatement(12, <<"o", ".", "m", "(", "2", ")">>)>>,
     <<PrintStatement(11, <<"g", "(", "2", ")">>)>>}

CallPrograms ==
    {Callees \o <<FunctionDeclaration("main", <<>>, body)>> : body \in CallStatements}

\* the bodies of the functions and constructors that follow one another:
\* { }, { print(1 + 2); }, { h(); } and { let y: integer = 1 + 2; print(y + 1); }
Bodies ==
    {<<>>,
     <<PrintStatement(21, <<"1", "+", "2">>)>>,
     <<ExpressionStatement(21, <<"h", "(", ")">>)>>,
     <<VariableDeclaration(21, "y", "integer", <<"1", "+", "2">>),
       PrintStatement(22, <<"y", "+", "1">>)>>}
Renumbered(body) == [i \in 1..Len(body) |-> [body[i] EXCEPT !.id = @ + 10]]

\* function h() { } <first> <second>, the two being functions or classes
\* with a constructor
DeclPrograms ==
    {<<FunctionDeclaration("h", <<>>, <<>>), first, second>> :
        first \in {FunctionDeclaration("f", <<>>, body) : body \in Bodies}
                  \cup {ClassDeclaration("C", <<InitMethod(<<>>, body)>>) : body \in Bodies},
        second \in {FunctionDeclaration("main", <<>>, Renumbered(body)) : body \in Bodies}
                   \cup {ClassDeclaration("D", <<InitMethod(<<>>, Renumbered(body))>>) :
                            body \in Bodies}}

\* what stands between two declarations of a function body: nothing,
\* function k() { }, function k() { let r: integer = 3; },
\* if (a) { print(1); } or if (a) { let r: integer = 3; }
Between ==
    {<<>>,
     <<FunctionDeclaration("k", <<>>, <<>>)>>,
     <<FunctionDeclaration("k", <<>>, <<VariableDeclaration(32, "r", "integer", <<"3">>)>>)>>,
     <<IfStatement(32, <<"a">>, <<PrintStatement(33, <<"1">>)>>, <<>>, FALSE)>>,
     <<IfStatement(32, <<"a">>, <<VariableDeclaration(33, "r", "integer", <<"3">>)>>,
                   <<>>, FALSE)>>}

\* function main() { let p: <type> = 1; <between> let q: integer = 2; }
OffsetPrograms ==
    {Globals \o <<FunctionDeclaration("main", <<>>,
                      <<VariableDeclaration(31, "p", type, <<"1">>)>> \o between
                      \o <<VariableDeclaration(34, "q", "integer", <<"2">>)>>)>> :
        type \in {"integer", "float"}, between \in Between}

TacPrograms ==
    CondPrograms \cup NestPrograms \cup CallPrograms \cup DeclPrograms
    \cup OffsetPrograms

Program(statements) == [Ctx EXCEPT !.kind = "program", !.kids = statements]
NoCond == [text |-> <<>>, code |-> <<>>, globals |-> {}, true_label |-> "", false_label |-> ""]

InitGen ==
    /\ symbol_table = ST_new
    /\ st_call = NoCall
    /\ analyzer = SA_new
    /\ \E statements \in TacPrograms :
           walk = [stack |-> <<[ctx |-> Program(statements), i |-> 0]>>,
                   last_cond |-> NoCond]
    /\ \E generate_mips \in BOOLEAN :
           driver = [phase |-> "tac", generate_mips |-> generate_mips,
                     tac_run |-> TRUE, mips_run |-> FALSE]
    /\ tac_generator = TAC_new
    /\ mips_generator = NotCreated

\* the walker is about to enter a child of kind `kind` / to leave the open
\* node of kind `kind`
Child == Top.ctx.kids[Top.i]
Entering(kind) ==
    /\ driver.phase = "tac"
    /\ Top.i >= 1 /\ Top.i <= Len(Top.ctx.kids)
    /\ Child.kind = kind
Leaving(kind) ==
    /\ driver.phase = "tac"
    /\ Top.i > Len(Top.ctx.kids)
    /\ Top.ctx.kind = kind
Descend == [walk EXCEPT !.stack = Append(@, [ctx |-> Child, i |-> 1])]
Advance == [walk EXCEPT !.stack[Len(walk.stack)].i = @ + 1]
Ascend ==
    LET open == Front(walk.stack) IN
    [walk EXCEPT !.stack = [open EXCEPT ![Len(open)].i = @ + 1]]

\* walker.walk(tac_generator, tree): enterProgram

\* walker.walk(tac_generator, tree): enterProgram
TacEnterProgram ==
    /\ driver.phase = "tac" /\ Top.ctx.kind = "program" /\ Top.i = 0
    /\ tac_generator' = TAC_enterProgram(tac_generator)
    /\ walk' = Advance
    /\ UNCHANGED <<symbol_table, st_call, analyzer, driver, mips_generator>>

TacEnterFunctionDeclaration ==
    /\ Entering("function")
    /\ tac_generator' = TAC_enterFunctionDeclaration(tac_generator, Child)
    /\ walk' = Descend
    /\ UNCHANGED <<symbol_table, st_call, analyzer, driver, mips_generator>>

TacExitFunctionDeclaration ==
    /\ Leaving("function")
    /\ tac_generator' = TAC_exitFunctionDeclaration(tac_generator)
    /\ walk' = Ascend
    /\ UNCHANGED <<symbol_table, st_call, analyzer, driver, mips_generator>>

TacEnterClassDeclaration ==
    /\ Entering("class")
    /\ tac_generator' = TAC_enterClassDeclaration(tac_generator, Child)
    /\ walk' = Descend
    /\ UNCHANGED <<symbol_table, st_call, analyzer, driver, mips_generator>>

TacExitClassDeclaration ==
    /\ Leaving("class")
    /\ tac_generator' = TAC_exitClassDeclaration(tac_generator)
    /\ walk' = Ascend
    /\ UNCHANGED <<symbol_table, st_call, analyzer, driver, mips_generator>>

TacEnterInitMethod ==
    /\ Entering("init")
    /\ tac_generator' = TAC_enterInitMethod(tac_generator, Child)
    /\ walk' = Descend
    /\ UNCHANGED <<symbol_table, st_call, analyzer, driver, mips_generator>>

TacExitInitMethod ==
    /\ Leaving("init")
    /\ tac_generator' = TAC_exitInitMethod(tac_generator)
    /\ walk' = Ascend
    /\ UNCHANGED <<symbol_table, st_call, analyzer, driver, mips_generator>>

\* a statement without statements inside: its enter handler runs, no
\* handler runs for the expression nodes below it
TacVariableDeclaration ==
    /\ Entering("var")
    /\ tac_generator' = TAC_enterVariableDeclaration(tac_generator, Child)
    /\ walk' = Advance
    /\ UNCHANGED <<symbol_table, st_call, analyzer, driver, mips_generator>>

TacExpressionStatement ==
    /\ Entering("expr")
    /\ tac_generator' = TAC_enterExpressionStatement(tac_generator, Child)
    /\ walk' = Advance
    /\ UNCHANGED <<symbol_table, st_call, analyzer, driver, mips_generator>>

TacPrintStatement ==
    /\ Entering("print")
    /\ tac_generator' = TAC_enterPrintStatement(tac_generator, Child)
    /\ walk' = Advance
    /\ UNCHANGED <<symbol_table, st_call, analyzer, driver, mips_generator>>

TacReturnStatement ==
    /\ Entering("return")
    /\ tac_generator' = TAC_enterReturnStatement(tac_generator, Child)
    /\ walk' = Advance
    /\ UNCHANGED <<symbol_table, st_call, analyzer, driver, mips_generator>>

\* enterIfStatement lowers the condition and both blocks; the walker then
\* goes on into the blocks.  last_cond keeps the jump code of the condition
\* and the targets it was emitted with.
TacEnterIfStatement ==
    LET LastCond(c) ==
            [text |-> Child.text,
             code |-> SubSeq(c.g.instructions, Len(tac_generator.instructions) + 1,
                             Len(c.g.instructions)),
             globals |-> c.g.global_variables,
             true_label |-> c.true_label, false_label |-> c.b_false]
    IN /\ Entering("if")
       /\ tac_generator' = TAC_enterIfStatement(tac_generator, Child)
       /\ walk' = [Descend EXCEPT !.last_cond = LastCond(if_condition(tac_generator, Child))]
       /\ UNCHANGED <<symbol_table, st_call, analyzer, driver, mips_generator>>

\* exitIfStatement does nothing
TacExitIfStatement ==
    /\ Leaving("if")
    /\ walk' = Ascend
    /\ UNCHANGED <<symbol_table, st_call, analyzer, driver, tac_generator, mips_generator>>

TacEnterWhileStatement ==
    /\ Entering("while")
    /\ tac_generator' = TAC_enterWhileStatement(tac_generator, Child)
    /\ walk' = Descend
    /\ UNCHANGED <<symbol_table, st_call, analyzer, driver, mips_generator>>

TacExitWhileStatement ==
    /\ Leaving("while")
    /\ tac_generator' = TAC_exitWhileStatement(tac_generator)
    /\ walk' = Ascend
    /\ UNCHANGED <<symbol_table, st_call, analyzer, driver, mips_generator>>

\* exitProgram: the walk is over, get_tac_code() is the emitted text
TacExitProgram ==
    /\ Leaving("program")
    /\ tac_generator' = TAC_exitProgram(tac_generator)
    /\ driver' = [driver EXCEPT !.phase = "tac_emitted"]
    /\ UNCHANGED <<symbol_table, st_call, analyzer, walk, mips_generator>>


\* ------------------------------------------------------------------------
\* MIPSGenerator.py
\*
\* A TACInstruction is [operation, result, arg1, arg2, label, comment]; the
\* comment of a FUNCTION or END FUNCTION line is the line itself, that of a
\* `//` line its text.  Of the MIPS text the model keeps what defines or
\* names a label and the prologue and epilogue of a function: one entry
\* [k, s] for a function label, a label, a `j`, a `bne`, a `jal`, a
\* prologue, an epilogue or a comment, and one entry "code" for the code of
\* any other instruction.
\* ------------------------------------------------------------------------
NoComment == [f |-> "", s |-> ""]
TACInstruction(operation, result, arg1, arg2, label, comment) ==
    [operation |-> operation, result |-> result, arg1 |-> arg1, arg2 |-> arg2,
     label |-> label, comment |-> comment]

\* the regular expression \w+ matches letters, digits and underscores: a
\* temporary, a name or a number, but not a slot fp[n] or G[n]
IsWord(a) == a.k \in {"t", "id", "R"} \/ (a.k = "num" /\ a.n >= 0)

binary_ops(op) ==
    CASE op = "+" -> "ADD" [] op = "==" -> "EQ" [] op = "<" -> "LT"
      [] op = "&&" -> "AND" [] op = "||" -> "OR"

\* _parse_tac_line: the instruction of a line, in a sequence that is empty
\* when the line is not recognised (None)
parse_tac_line(line) ==
    CASE line.f = "FUNCTION" ->
            <<TACInstruction("ASSIGN", NoOpd, NoOpd, NoOpd, "", [f |-> "FUNCTION", s |-> line.s])>>
      [] line.f = "END FUNCTION" ->
            <<TACInstruction("ASSIGN", NoOpd, NoOpd, NoOpd, "", [f |-> "END FUNCTION", s |-> line.s])>>
      [] line.f = "label" -> <<TACInstruction("LABEL", NoOpd, NoOpd, NoOpd, line.s, NoComment)>>
      [] line.f = "GOTO" -> <<TACInstruction("GOTO", NoOpd, NoOpd, NoOpd, line.s, NoComment)>>
      [] line.f = "IF" ->
            IF IsWord(line.a)
            THEN <<TACInstruction("IF_TRUE", NoOpd, line.a, NoOpd, line.s, NoComment)>>
            ELSE <<>>
      [] line.f = "PARAM" -> <<TACInstruction("PARAM", NoOpd, line.a, NoOpd, "", NoComment)>>
      [] line.f = "CALL" ->
            <<TACInstruction("CALL", NoOpd, Opd("id", line.s, 0), Opd("num", "", line.n),
                             "", NoComment)>>
      [] line.f = "RETURN" -> <<TACInstruction("RETURN", NoOpd, line.a, NoOpd, "", NoComment)>>
      [] line.f = "PRINT" -> <<TACInstruction("PRINT", NoOpd, line.a, NoOpd, "", NoComment)>>
      [] line.f = "binop" ->
            <<TACInstruction(binary_ops(line.op), line.a, line.b, line.c, "", NoComment)>>
      [] line.f = ":=" -> <<TACInstruction("ASSIGN", line.a, line.b, NoOpd, "", NoComment)>>
      [] OTHER -> <<>>

\* _parse_tac_string
RECURSIVE parse_tac_string(_)
parse_tac_string(tac_code) ==
    IF tac_code = <<>> THEN <<>>
    ELSE (IF tac_code[1].f = "//"
          THEN <<TACInstruction("ASSIGN", NoOpd, NoOpd, NoOpd, "",
                                [f |-> "//", s |-> tac_code[1].s])>>
          ELSE parse_tac_line(tac_code[1]))
         \o parse_tac_string(Tail(tac_code))

MipsLine(k, s) == [k |-> k, s |-> s]

\* _is_leaf_function: the scan of self.instructions from instruction i on
RECURSIVE is_leaf_function(_, _, _, _)
is_leaf_function(instructions, func_name, i, in_function) ==
    IF i > Len(instructions) THEN TRUE
    ELSE LET instr == instructions[i]
             starts == instr.comment.f = "FUNCTION" /\ instr.comment.s = func_name
         IN IF ~starts /\ instr.comment.f = "END FUNCTION" /\ in_function THEN TRUE
            ELSE IF (in_function \/ starts) /\ instr.operation = "CALL" THEN FALSE
            ELSE is_leaf_function(instructions, func_name, i + 1, in_function \/ starts)

\* _emit_function_prologue
emit_function_prologue(instructions, text_section, func_name) ==
    text_section \o <<MipsLine("function", func_name),
                      IF is_leaf_function(instructions, func_name, 1, FALSE)
                      THEN MipsLine("#", "Prologo minimo (leaf function)")
                      ELSE MipsLine("prologue", func_name)>>

\* _emit_function_epilogue
emit_function_epilogue(text_section, func_name) ==
    Append(text_section, MipsLine("epilogue", func_name))

\* _generate_instruction (with _emit_label, _emit_goto, _emit_if_true and
\* _emit_call; the labels of the modelled programs hold no ":" and no "-",
\* so that _mips_label leaves them as they are)
generate_instruction(text_section, instr) ==
    IF instr.comment # NoComment
    THEN (IF instr.comment.f = "//"
          THEN Append(text_section, MipsLine("#", instr.comment.s))
          ELSE text_section)
    ELSE CASE instr.operation = "LABEL" -> Append(text_section, MipsLine("label", instr.label))
           [] instr.operation = "GOTO" -> Append(text_section, MipsLine("j", instr.label))
           [] instr.operation = "IF_TRUE" -> Append(text_section, MipsLine("bne", instr.label))
           [] instr.operation = "CALL" -> Append(text_section, MipsLine("jal", instr.arg1.s))
           [] OTHER -> Append(text_section, MipsLine("code", instr.operation))

\* _generate_function: [i, text_section]
RECURSIVE generate_function(_, _, _, _)
generate_function(instructions, i, func_name, text_section) ==
    IF i > Len(instructions)
    THEN [i |-> i, text_section |-> emit_function_epilogue(text_section, func_name)]
    ELSE IF instructions[i].comment.f = "END FUNCTION" /\ instructions[i].comment.s = func_name
    THEN [i |-> i + 1, text_section |-> emit_function_epilogue(text_section, func_name)]
    ELSE generate_function(instructions, i + 1, func_name,
                           generate_instruction(text_section, instructions[i]))

\* _generate_code
RECURSIVE generate_code(_, _, _)
generate_code(instructions, i, text_section) ==
    IF i > Len(instructions) THEN text_section
    ELSE IF instructions[i].comment.f = "FUNCTION"
    THEN LET func_name == instructions[i].comment.s
             Resume(done) == generate_code(instructions, done.i, done.text_section)
         IN Resume(generate_function(
                       instructions, i + 1, func_name,
                       emit_function_prologue(instructions, text_section, func_name)))
    ELSE generate_code(instructions, i + 1,
                       generate_instruction(text_section, instructions[i]))

\* _format_output: the text section, and a main that exits when none exists
format_output(text_section) ==
    IF \E i \in 1..Len(text_section) :
           text_section[i].k \in {"function", "label"} /\ text_section[i].s = "main"
    THEN text_section
    ELSE text_section \o <<MipsLine("label", "main"), MipsLine("code", "exit")>>

\* MIPSGenerator() and generate(tac_code)
MIPS_generate(tac_code) ==
    LET Generated(instructions) ==
            [created |-> TRUE, instructions |-> instructions,
             output |-> format_output(generate_code(instructions, 1, <<>>))]
    IN Generated(parse_tac_string(tac_code))

\* Driver.main with --mips: mips_generator.generate(tac_code)
MipsGenerate ==
    /\ driver.phase = "tac_emitted" /\ driver.generate_mips
    /\ mips_generator' = MIPS_generate(tac_generator.instructions)
    /\ driver' = [driver EXCEPT !.phase = "done", !.mips_run = TRUE]
    /\ UNCHANGED <<symbol_table, st_call, analyzer, walk, tac_generator>>

NextGen ==
    \/ TacEnterProgram \/ TacExitProgram
    \/ TacEnterFunctionDeclaration \/ TacExitFunctionDeclaration
    \/ TacEnterClassDeclaration \/ TacExitClassDeclaration
    \/ TacEnterInitMethod \/ TacExitInitMethod
    \/ TacVariableDeclaration \/ TacExpressionStatement
    \/ TacPrintStatement \/ TacReturnStatement
    \/ TacEnterIfStatement \/ TacExitIfStatement
    \/ TacEnterWhileStatement \/ TacExitWhileStatement
    \/ MipsGenerate

SpecGen == InitGen /\ [][NextGen]_vars

\* ------------------------------------------------------------------------
\* Properties of the emitted TAC and of the MIPS text
\* ------------------------------------------------------------------------
\* get_tac_code(), once the walk is over
TacEmitted == driver.phase \in {"tac_emitted", "done"}
tac_code == tac_generator.instructions
Count(seq, Test(_)) == Cardinality({i \in 1..Len(seq) : Test(seq[i])})

\* C4: every label named by a GOTO or by an IF ... GOTO line of the
\* emitted TAC is emitted as a label line exactly once in the whole output.
C4_JumpTargetsEmittedOnce ==
    TacEmitted =>
        \A i \in 1..Len(tac_code) :
            tac_code[i].f \in {"GOTO", "IF"} =>
                LET IsTarget(line) == line.f = "label" /\ line.s = tac_code[i].s
                IN Count(tac_code, IsTarget) = 1

\* the line of the CALL or of the FUNCTION header that precedes line i
\* (0: none)
PrecedingCall(i) ==
    LET before == {j \in 1..(i - 1) : tac_code[j].f \in {"CALL", "FUNCTION"}}
    IN IF before = {} THEN 0 ELSE CHOOSE j \in before : \A k \in before : k <= j

\* C5: for every line `CALL name,N` exactly N PARAM lines lie between it
\* and the preceding CALL line, or the start of the function when there is
\* none.
C5_ParamsMatchCall ==
    TacEmitted =>
        \A i \in 1..Len(tac_code) :
            tac_code[i].f = "CALL" =>
                Cardinality({j \in (PrecedingCall(i) + 1)..(i - 1) :
                                tac_code[j].f = "PARAM"}) = tac_code[i].n

\* the END FUNCTION line that closes the FUNCTION header at line i
EndOfFunction(i) ==
    CHOOSE j \in (i + 1)..Len(tac_code) :
        /\ tac_code[j].f = "END FUNCTION" /\ tac_code[j].s = tac_code[i].s
        /\ \A k \in (i + 1)..(j - 1) :
               ~(tac_code[k].f = "END FUNCTION" /\ tac_code[k].s = tac_code[i].s)
\* the temporaries assigned in the body of the function at line i
AssignedTemps(i) ==
    {tac_code[j].a.n : j \in {k \in (i + 1)..(EndOfFunction(i) - 1) :
                                 /\ tac_code[k].f \in {":=", "binop"}
                                 /\ tac_code[k].a.k = "t"}}

\* C6: within each FUNCTION ... END FUNCTION block the temporaries that
\* are assigned are t0, ..., tm for some m: no index below the highest one
\* is missing.
C6_TemporariesFromZero ==
    TacEmitted =>
        \A i \in 1..Len(tac_code) :
            tac_code[i].f = "FUNCTION" =>
                \A n \in AssignedTemps(i) : \A k \in 0..n : k \in AssignedTemps(i)

\* the MIPS text, once generate has returned
MipsEmitted == driver.phase = "done"
mips_code == mips_generator.output
IsLabelLine(line) == line.k \in {"function", "label"}

\* C7: in the MIPS text every label is defined exactly once and the target
\* of every jal is a label that the text defines.
C7_MipsLabelsDefinedOnce ==
    MipsEmitted =>
        \A i \in 1..Len(mips_code) :
            LET Defines(line) == IsLabelLine(line) /\ line.s = mips_code[i].s IN
            /\ IsLabelLine(mips_code[i]) => Count(mips_code, Defines) = 1
            /\ mips_code[i].k = "jal" => Count(mips_code, Defines) >= 1

\* line p of the MIPS text is the n-th label of the function `name`
FunctionLabel(p, name, n) ==
    /\ mips_code[p].k = "function" /\ mips_code[p].s = name
    /\ Cardinality({q \in 1..p : mips_code[q].k = "function" /\ mips_code[q].s = name}) = n

\* C8: the stack-reserving prologue is emitted for a function if and only
\* if a CALL occurs between that function's own FUNCTION header and its
\* END FUNCTION.
C8_PrologueIffCall ==
    MipsEmitted =>
        \A i \in 1..Len(tac_code) :
            tac_code[i].f = "FUNCTION" =>
                LET name == tac_code[i].s
                    n == Cardinality({j \in 1..i : tac_code[j].f = "FUNCTION"
                                                    /\ tac_code[j].s = name})
                IN (\E p \in 1..(Len(mips_code) - 1) :
                        FunctionLabel(p, name, n) /\ mips_code[p + 1].k = "prologue")
                   <=> \E j \in (i + 1)..(EndOfFunction(i) - 1) : tac_code[j].f = "CALL"

\* the operational lines of the TAC and the operational instructions that
\* the parser made of the text
IsOperational(line) == line.f \notin {"//", "FUNCTION", "END FUNCTION"}
IsInstruction(instr) == instr.comment = NoComment
\* the TAC line that an instruction stands for
LineOf(instr) ==
    CASE instr.operation = "LABEL" -> Line("label", instr.label, 0, NoOpd, "", NoOpd, NoOpd)
      [] instr.operation = "GOTO" -> Line("GOTO", instr.label, 0, NoOpd, "", NoOpd, NoOpd)
      [] instr.operation = "IF_TRUE" -> Line("IF", instr.label, 0, instr.arg1, "", NoOpd, NoOpd)
      [] instr.operation = "PARAM" -> Line("PARAM", "", 0, instr.arg1, "", NoOpd, NoOpd)
      [] instr.operation = "CALL" ->
            Line("CALL", instr.arg1.s, instr.arg2.n, NoOpd, "", NoOpd, NoOpd)
      [] instr.operation = "RETURN" ->
            Line("RETURN", "", IF instr.arg1 = NoOpd THEN 0 ELSE 1, instr.arg1, "", NoOpd, NoOpd)
      [] instr.operation = "PRINT" -> Line("PRINT", "", 0, instr.arg1, "", NoOpd, NoOpd)
      [] instr.operation = "ASSIGN" -> Line(":=", "", 0, instr.result, "", instr.arg1, NoOpd)
      [] OTHER -> Line("binop", "", 0, instr.result,
                       CHOOSE op \in BinaryOps : binary_ops(op) = instr.operation,
                       instr.arg1, instr.arg2)

\* C9: parsing the text of the emitted TAC and emitting the instructions
\* again gives the operational lines of the TAC, in the same order and with
\* no line dropped.
C9_ParseRoundTrip ==
    MipsEmitted =>
        LET parsed == SelectSeq(mips_generator.instructions, IsInstruction)
        IN [i \in 1..Len(parsed) |-> LineOf(parsed[i])] = SelectSeq(tac_code, IsOperational)

\* the variables of the conditions, false (0) or true (1); x is 0 or 1
Valuations == [{"a", "b", "c", "x"} -> {0, 1}]
MaxSteps == 16
\* the jump code of the last condition, run under a valuation
RunLastCond(val) ==
    RunJumpCode(walk.last_cond.code, 1, {}, {}, MaxSteps, walk.last_cond.globals, val,
                walk.last_cond.true_label, walk.last_cond.false_label)

\* C10: the jump code emitted for a condition B with targets (B.true,
\* B.false) reaches B.true exactly when B is true and B.false otherwise,
\* and evaluates the right operand of || only when the left one is false,
\* that of && only when the left one is true.
C10_JumpCodeShortCircuit ==
    \A cond \in Conds :
        walk.last_cond.text = getText(cond) =>
            \A val \in Valuations :
                LET Agree(run, value) ==
                        /\ run.out = (IF value.v THEN "true" ELSE "false")
                        /\ run.reads = value.reads
                IN Agree(RunLastCond(val), EvalB(cond, val))


\* ------------------------------------------------------------------------
\* MIPSGenerator: registers, descriptors and the code of one instruction.
\* A location is an operand record: a register Reg("$t0"), a number, a
\* frame slot StackLoc(n) for the text -n($fp), or a slot SpLoc(n) for
\* n($sp).  A line of the text section is Asm(op, x, y, z, var): the
\* instruction op x, y, z, and in var the variable whose value the written
\* register or slot then holds (NoOpd for a scratch value).  The indices of
\* next_use and current_instruction_index count from 0 as in the source, and
\* NoUse stands for None.
\* ------------------------------------------------------------------------
TEMP_REGISTERS == <<"$t0", "$t1", "$t2", "$t3", "$t4", "$t5", "$t6", "$t7", "$t8", "$t9">>
SAVED_REGISTERS == <<"$s0", "$s1", "$s2", "$s3", "$s4", "$s5", "$s6", "$s7">>
ARG_REGISTERS == <<"$a0", "$a1", "$a2", "$a3">>

Range(s) == {s[i] : i \in 1..Len(s)}
Reg(name) == Opd("reg", name, 0)
StackLoc(offset) == Opd("stack", "", offset)
SpLoc(offset) == Opd("sp", "", offset)
Lbl(label) == Opd("label", label, 0)
Asm(op, x, y, z, var) == [op |-> op, x |-> x, y |-> y, z |-> z, var |-> var]
NoUse == 0 - 1

\* MIPSGenerator.__init__ and _reset
MIPSGenerator_new ==
    [created |-> TRUE,
     register_descriptor |-> {}, variable_descriptor |-> {},
     register_free |-> Range(TEMP_REGISTERS) \cup Range(SAVED_REGISTERS),
     register_used |-> {},
     variable_map |-> {}, stack_variables |-> {},
     next_use |-> {}, current_instruction_index |-> 0, instructions |-> <<>>,
     stack_offset |-> 0, frame_size |-> 0,
     current_function |-> "", function_stack |-> <<>>, is_leaf |-> {},
     param_stack |-> <<>>, text_section |-> <<>>,
     used_saved_registers |-> {}]

\* _emit
mips_emit(m, code) == [m EXCEPT !.text_section = Append(@, code)]

\* _is_register
is_register(location) == location.k = "reg"

\* the first register of a list that is in register_free ("" for none)
first_free(registers, register_free) ==
    IF \E i \in 1..Len(registers) : registers[i] \in register_free
    THEN registers[CHOOSE i \in 1..Len(registers) :
                       /\ registers[i] \in register_free
                       /\ \A j \in 1..(i - 1) : registers[j] \notin register_free]
    ELSE ""

\* _allocate_free_register(prefer_temp=True): [g, r], r = "" for None
allocate_free_register(m) ==
    LET Take(reg, saved) ==
            Ret([m EXCEPT !.register_free = @ \ {reg},
                          !.register_used = @ \cup {reg},
                          !.used_saved_registers = @ \cup saved,
                          !.register_descriptor = DictPut(@, reg, {})], reg)
        Saved(reg) == IF reg # "" THEN Take(reg, {reg}) ELSE Ret(m, "")
        Temp(reg) == IF reg # "" THEN Take(reg, {})
                     ELSE Saved(first_free(SAVED_REGISTERS, m.register_free))
    IN Temp(first_free(TEMP_REGISTERS, m.register_free))

\* _assign_register_to_variable
assign_register_to_variable(m, register, variable) ==
    [m EXCEPT !.register_descriptor =
                  DictPut(@, register,
                          (IF DictHas(@, register) THEN DictGet(@, register) ELSE {})
                          \cup {variable}),
              !.variable_descriptor = DictPut(@, variable, Reg(register)),
              !.register_used = @ \cup {register},
              !.register_free = @ \ {register}]

\* _allocate_stack_location: [g, r]
allocate_stack_location(m, variable) ==
    LET offset == m.stack_offset + 4 IN
    IF DictHas(m.stack_variables, variable)
    THEN Ret(m, StackLoc(DictGet(m.stack_variables, variable)))
    ELSE Ret([m EXCEPT !.stack_offset = offset,
                       !.frame_size = IF @ > offset THEN @ ELSE offset,
                       !.stack_variables = DictPut(@, variable, offset),
                       !.variable_descriptor = DictPut(@, variable, StackLoc(offset))],
             StackLoc(offset))

\* _get_stack_location: [g, r]
get_stack_location(m, variable) ==
    IF ~DictHas(m.stack_variables, variable)
    THEN allocate_stack_location(m, variable)
    ELSE Ret(m, StackLoc(DictGet(m.stack_variables, variable)))

\* _spill_register_contents: the loop over the variables of the register,
\* then the release of the register
RECURSIVE spill_variables(_, _, _)
spill_variables(m, register, variables_in_reg) ==
    LET var == CHOOSE v \in variables_in_reg : TRUE
        Stored(loc) ==
            [mips_emit(loc.g, Asm("sw", Reg(register), loc.r, NoOpd, var))
                EXCEPT !.variable_descriptor = DictPut(@, var, loc.r),
                       !.variable_map = DictPut(@, var, loc.r)]
    IN IF variables_in_reg = {} THEN m
       ELSE spill_variables(
                Stored(IF ~DictHas(m.stack_variables, var)
                       THEN allocate_stack_location(m, var)
                       ELSE get_stack_location(m, var)),
                register, variables_in_reg \ {var})

spill_register_contents(m, register) ==
    LET Cleared(n) ==
            [n EXCEPT !.register_descriptor = DictPut(@, register, {}),
                      !.register_used = @ \ {register},
                      !.register_free = @ \cup {register},
                      !.used_saved_registers = @ \ {register}]
    IN IF ~DictHas(m.register_descriptor, register) THEN m
       ELSE Cleared(spill_variables(m, register, DictGet(m.register_descriptor, register)))

\* _calculate_spill_cost
calculate_spill_cost(m, register) ==
    LET variables_in_reg == DictGet(m.register_descriptor, register)
        Use(var) == IF DictHas(m.next_use, var) THEN DictGet(m.next_use, var) ELSE NoUse
        min_next_use == CHOOSE u \in {Use(v) : v \in variables_in_reg} :
                            \A v \in variables_in_reg : u <= Use(v)
        cost == min_next_use - m.current_instruction_index
    IN IF ~DictHas(m.register_descriptor, register) THEN 1000
       ELSE IF variables_in_reg = {} THEN 1000
       ELSE IF \E v \in variables_in_reg : Use(v) = NoUse THEN 10000
       ELSE IF cost > 0 THEN cost ELSE 0

\* _select_register_for_spilling(prefer_temp=True): the first register of the
\* candidates that has the greatest cost (the sort is stable)
select_register_for_spilling(m) ==
    LET Cost(pool, extra, i) == calculate_spill_cost(m, pool[i]) + extra
        Used(pool) == {i \in 1..Len(pool) : pool[i] \in m.register_used}
        Best(pool, extra) ==
            pool[CHOOSE i \in Used(pool) :
                     \A j \in Used(pool) :
                         \/ Cost(pool, extra, j) < Cost(pool, extra, i)
                         \/ (Cost(pool, extra, j) = Cost(pool, extra, i) /\ i <= j)]
    IN IF Used(TEMP_REGISTERS) # {} THEN Best(TEMP_REGISTERS, 0)
       ELSE IF Used(SAVED_REGISTERS) # {} THEN Best(SAVED_REGISTERS, 100)
       ELSE TEMP_REGISTERS[1]

\* get_register(variable_name, force_temp=True): [g, r]
get_register(m, variable_name) ==
    LET Mapped(n, reg) == Ret([n EXCEPT !.variable_map = DictPut(@, variable_name, Reg(reg))],
                              Reg(reg))
        Assigned(n, reg) == Mapped(assign_register_to_variable(n, reg, variable_name), reg)
        Spilled(victim_reg) == Assigned(spill_register_contents(m, victim_reg), victim_reg)
        Free(free) == IF free.r # "" THEN Assigned(free.g, free.r)
                      ELSE Spilled(select_register_for_spilling(m))
    IN IF /\ DictHas(m.variable_descriptor, variable_name)
          /\ is_register(DictGet(m.variable_descriptor, variable_name))
          /\ DictHas(m.register_descriptor, DictGet(m.variable_descriptor, variable_name).s)
       THEN Ret(m, DictGet(m.variable_descriptor, variable_name))
       ELSE IF /\ DictHas(m.variable_map, variable_name)
               /\ is_register(DictGet(m.variable_map, variable_name))
       THEN Ret(m, DictGet(m.variable_map, variable_name))
       ELSE Free(allocate_free_register(m))

\* _allocate_register(force_temp=True), with _spill_register: [g, r]
allocate_register(m) ==
    LET Take(reg, saved) ==
            Ret([m EXCEPT !.register_free = @ \ {reg},
                          !.register_used = @ \cup {reg},
                          !.used_saved_registers = @ \cup saved], Reg(reg))
        Saved(reg) == IF reg # "" THEN Take(reg, {reg})
                      ELSE Ret(spill_register_contents(m, TEMP_REGISTERS[1]),
                               Reg(TEMP_REGISTERS[1]))
        Temp(reg) == IF reg # "" THEN Take(reg, {})
                     ELSE Saved(first_free(SAVED_REGISTERS, m.register_free))
    IN Temp(first_free(TEMP_REGISTERS, m.register_free))

\* free_register(register, save_to_memory): the loop over the variables of
\* the register, then the release of the register
RECURSIVE save_variables(_, _, _, _)
save_variables(m, register, variables, save_to_memory) ==
    LET var == CHOOSE v \in variables : TRUE
        Saved(loc) == mips_emit(loc.g, Asm("sw", Reg(register), loc.r, NoOpd, var))
    IN IF variables = {} THEN m
       ELSE save_variables(
                IF /\ save_to_memory
                   /\ DictHas(m.variable_descriptor, var)
                   /\ DictGet(m.variable_descriptor, var) = Reg(register)
                   /\ ~DictHas(m.stack_variables, var)
                THEN Saved(allocate_stack_location(m, var))
                ELSE m,
                register, variables \ {var}, save_to_memory)

free_register(m, register, save_to_memory) ==
    LET Released(n) ==
            [n EXCEPT !.register_used = @ \ {register},
                      !.register_free = @ \cup {register},
                      !.used_saved_registers = @ \ {register}]
        Cleared(n) == [n EXCEPT !.register_descriptor = DictPut(@, register, {})]
    IN IF DictHas(m.register_descriptor, register)
       THEN Released(Cleared(save_variables(m, register,
                                            DictGet(m.register_descriptor, register),
                                            save_to_memory)))
       ELSE Released(m)

\* _get_parameter_location: [g, r]
get_parameter_location(m, param_index) ==
    LET Loaded(reg) ==
            Ret(mips_emit(reg.g, Asm("lw", reg.r, Opd("fp+", "", (param_index - 4) * 4 + 8),
                                     NoOpd, NoOpd)),
                reg.r)
    IN IF param_index <= 4 /\ param_index >= 1
       THEN Ret(m, Reg(ARG_REGISTERS[param_index]))
       ELSE Loaded(allocate_register(m))

\* _get_operand_location: [g, r]
get_operand_location(m, operand) ==
    LET Loaded(reg, loc) == Ret(mips_emit(reg.g, Asm("lw", reg.r, loc, NoOpd, NoOpd)), reg.r)
    IN IF operand.k = "num" THEN Ret(m, operand)
       ELSE IF operand.k = "reg" THEN Ret(m, operand)
       ELSE IF operand.k = "fp" /\ operand.n < 0
       THEN get_parameter_location(m, 0 - operand.n)
       ELSE IF DictHas(m.variable_map, operand)
       THEN (IF is_register(DictGet(m.variable_map, operand))
             THEN Ret(m, DictGet(m.variable_map, operand))
             ELSE Loaded(allocate_register(m), DictGet(m.variable_map, operand)))
       ELSE get_register(m, operand)

\* _compute_next_use: the value that the backward pass leaves for a variable
\* is decided by the first instruction that mentions it
compute_next_use(instructions) ==
    LET IsResult(o) == o.k \notin {"none", "num"}
        IsArg(o) == o.k \notin {"none", "num", "R"}
        Results(i) == {o \in {instructions[i].result} : IsResult(o)}
        Args(i) == {o \in {instructions[i].arg1, instructions[i].arg2} : IsArg(o)}
        Vars == UNION {Results(i) \cup Args(i) : i \in 1..Len(instructions)}
        First(var) == CHOOSE i \in 1..Len(instructions) :
                          /\ var \in Results(i) \cup Args(i)
                          /\ \A j \in 1..(i - 1) : var \notin Results(j) \cup Args(j)
    IN {<<var, IF var \in Args(First(var)) THEN First(var) - 1 ELSE NoUse>> : var \in Vars}

\* _emit_label, _emit_goto
MIPS_emit_label(m, label) == mips_emit(m, Asm("label", Lbl(label), NoOpd, NoOpd, NoOpd))
MIPS_emit_goto(m, label) == mips_emit(m, Asm("j", Lbl(label), NoOpd, NoOpd, NoOpd))

\* _emit_if_true
MIPS_emit_if_true(m, condition, label) ==
    LET Branch(cond_reg) ==
            mips_emit(cond_reg.g, Asm("bne", cond_reg.r, Reg("$zero"), Lbl(label), NoOpd))
    IN Branch(get_operand_location(m, condition))

\* the instruction that brings the value at a location into a register
load_into(m, reg, loc, var) ==
    mips_emit(m, Asm(IF is_register(loc) THEN "move" ELSE IF loc.k = "num" THEN "li" ELSE "lw",
                     reg, loc, NoOpd, var))

\* _emit_assign
MIPS_emit_assign(m, result, source) ==
    LET FromV0(result_reg) ==
            IF result_reg.r # Reg("$v0")
            THEN mips_emit(result_reg.g, Asm("move", result_reg.r, Reg("$v0"), NoOpd, result))
            ELSE result_reg.g
        Move(src_loc, dst_reg) ==
            IF src_loc = dst_reg.r THEN dst_reg.g
            ELSE load_into(dst_reg.g, dst_reg.r, src_loc, result)
        From(src_loc) == Move(src_loc.r, get_register(src_loc.g, result))
    IN IF result = NoOpd THEN m
       ELSE IF source.k = "R" THEN FromV0(get_register(m, result))
       ELSE From(get_operand_location(m, source))

\* a register that holds the value at a location: [g, r]
in_register(m, loc) ==
    LET Loaded(reg) ==
            Ret(mips_emit(reg.g, Asm(IF loc.k = "num" THEN "li" ELSE "lw",
                                     reg.r, loc, NoOpd, NoOpd)), reg.r)
    IN IF is_register(loc) THEN Ret(m, loc) ELSE Loaded(allocate_register(m))

\* _emit_binary_op("add", ...)
MIPS_emit_binary_op(m, result, arg1, arg2) ==
    LET Addu(res_reg, op1, op2) ==
            mips_emit(op2.g, Asm("addu", res_reg, op1, op2.r, result))
        General(res_reg, op1, op2) == Addu(res_reg, op1.r, in_register(op1.g, op2))
        LoadWord(reg, op1) ==
            Ret(mips_emit(reg.g, Asm("lw", reg.r, op1, NoOpd, NoOpd)), reg.r)
        Addi(res_reg, op1, op2) == mips_emit(op1.g, Asm("addi", res_reg, op1.r, op2, result))
        Emit(n, op1, op2, res_reg) ==
            IF op2.k = "num"
            THEN Addi(res_reg, IF is_register(op1) THEN Ret(n, op1)
                               ELSE LoadWord(allocate_register(n), op1), op2)
            ELSE General(res_reg, in_register(n, op1), op2)
        Result(op1, op2, res_reg) == Emit(res_reg.g, op1, op2, res_reg.r)
        Second(op1, op2) == Result(op1, op2.r, get_register(op2.g, result))
        First(op1) == Second(op1.r, get_operand_location(op1.g, arg2))
    IN IF result = NoOpd THEN m
       ELSE First(get_operand_location(m, arg1))

\* _emit_param
MIPS_emit_param(m, param) ==
    LET Listed(n) == IF n.param_stack = <<>> THEN [n EXCEPT !.param_stack = <<(<<>>)>>] ELSE n
        Passed(n, param_value) ==
            LET param_index == Len(Last(n.param_stack))
                moved == IF param_index < 4
                         THEN load_into(n, Reg(ARG_REGISTERS[param_index + 1]),
                                        param_value, param)
                         ELSE n
            IN [moved EXCEPT !.param_stack[Len(n.param_stack)] = Append(@, param_value)]
        Value(param_value) == Passed(Listed(param_value.g), param_value.r)
    IN Value(get_operand_location(m, param))

\* _emit_call, step 1: the temporary registers to save
saved_regs(m) ==
    LET Live(var) == /\ DictHas(m.next_use, var)
                     /\ DictGet(m.next_use, var) # NoUse
                     /\ DictGet(m.next_use, var) > m.current_instruction_index
        Saved(reg) == /\ reg \in m.register_used
                      /\ DictHas(m.register_descriptor, reg)
                      /\ \E var \in DictGet(m.register_descriptor, reg) : Live(var)
    IN SelectSeq(TEMP_REGISTERS, Saved)

\* _emit_call, step 5: the parameters after the fourth, from the list index
\* i on (the list index counts from 0)
RECURSIVE extra_params(_, _, _)
extra_params(params, i, num_params) ==
    LET param_value == params[i + 1]
        slot == SpLoc((i - 4) * 4)
        lines == IF is_register(param_value)
                 THEN <<Asm("sw", param_value, slot, NoOpd, NoOpd)>>
                 ELSE <<Asm(IF param_value.k = "num" THEN "li" ELSE "lw",
                            Reg("$t9"), param_value, NoOpd, NoOpd),
                        Asm("sw", Reg("$t9"), slot, NoOpd, NoOpd)>>
    IN IF i >= num_params THEN <<>>
       ELSE (IF i < Len(params) THEN lines ELSE <<>>)
            \o extra_params(params, i + 1, num_params)

\* _emit_call
MIPS_emit_call(m, func_name, num_params) ==
    LET saved == saved_regs(m)
        stack_params == IF num_params > 4 THEN num_params - 4 ELSE 0
        total_space == stack_params * 4 + Len(saved) * 4
        Adjust(by) == IF total_space > 0
                      THEN <<Asm("addi", Reg("$sp"), Reg("$sp"), Opd("num", "", by), NoOpd)>>
                      ELSE <<>>
        Each(op) == [k \in 1..Len(saved) |->
                        Asm(op, Reg(saved[k]), SpLoc(total_space - 4 * k), NoOpd, NoOpd)]
        Extra == IF num_params > 4 /\ m.param_stack # <<>>
                 THEN extra_params(Last(m.param_stack), 4, num_params)
                 ELSE <<>>
    IN [m EXCEPT !.text_section =
                     @ \o Adjust(0 - total_space) \o Each("sw") \o Extra
                       \o <<Asm("jal", Lbl(func_name), NoOpd, NoOpd, NoOpd)>>
                       \o Each("lw") \o Adjust(total_space),
                 !.param_stack = IF @ # <<>> THEN Front(@) ELSE @]

\* _emit_return
MIPS_emit_return(m, value) ==
    LET Into(value_reg) ==
            IF value_reg.r = Reg("$v0") THEN value_reg.g
            ELSE load_into(value_reg.g, Reg("$v0"), value_reg.r, value)
    IN IF value = NoOpd THEN m ELSE Into(get_operand_location(m, value))

\* _emit_print
MIPS_emit_print(m, value) ==
    LET Syscalls(n) ==
            [n EXCEPT !.text_section =
                 @ \o <<Asm("li", Reg("$v0"), Opd("num", "", 1), NoOpd, NoOpd),
                        Asm("syscall", NoOpd, NoOpd, NoOpd, NoOpd),
                        Asm("li", Reg("$v0"), Opd("num", "", 4), NoOpd, NoOpd),
                        Asm("la", Reg("$a0"), Lbl("newline"), NoOpd, NoOpd),
                        Asm("syscall", NoOpd, NoOpd, NoOpd, NoOpd)>>]
        Into(value_reg) ==
            Syscalls(IF value_reg.r = Reg("$a0") THEN value_reg.g
                     ELSE load_into(value_reg.g, Reg("$a0"), value_reg.r, value))
    IN Into(get_operand_location(m, value))

\* _emit_function_prologue, with the descriptors
MIPS_emit_function_prologue(m, func_name) ==
    LET is_leaf == is_leaf_function(m.instructions, func_name, 1, FALSE)
        full == <<Asm("#", Lbl("Prologo"), NoOpd, NoOpd, NoOpd),
                  Asm("addi", Reg("$sp"), Reg("$sp"), Opd("num", "", 0 - 8), NoOpd),
                  Asm("sw", Reg("$ra"), SpLoc(4), NoOpd, NoOpd),
                  Asm("sw", Reg("$fp"), SpLoc(0), NoOpd, NoOpd),
                  Asm("move", Reg("$fp"), Reg("$sp"), NoOpd, NoOpd)>>
        minimal == <<Asm("#", Lbl("Prologo minimo (leaf function)"), NoOpd, NoOpd, NoOpd)>>
    IN [m EXCEPT !.text_section =
                     @ \o <<Asm("label", Lbl(func_name), NoOpd, NoOpd, NoOpd)>>
                       \o (IF is_leaf THEN minimal ELSE full),
                 !.is_leaf = DictPut(@, func_name, is_leaf),
                 !.frame_size = IF is_leaf THEN 0 ELSE 8]

\* _emit_function_epilogue, with the descriptors
MIPS_emit_function_epilogue(m, func_name) ==
    LET is_leaf == DictHas(m.is_leaf, func_name) /\ DictGet(m.is_leaf, func_name)
        frame_size == IF is_leaf THEN 0 ELSE 8
        full == <<Asm("#", Lbl("Epilogo"), NoOpd, NoOpd, NoOpd),
                  Asm("lw", Reg("$ra"), SpLoc(4), NoOpd, NoOpd),
                  Asm("lw", Reg("$fp"), SpLoc(0), NoOpd, NoOpd),
                  Asm("addi", Reg("$sp"), Reg("$sp"), Opd("num", "", frame_size), NoOpd),
                  Asm("jr", Reg("$ra"), NoOpd, NoOpd, NoOpd)>>
        minimal == <<Asm("#", Lbl("Epilogo minimo"), NoOpd, NoOpd, NoOpd),
                     Asm("jr", Reg("$ra"), NoOpd, NoOpd, NoOpd)>>
    IN [m EXCEPT !.text_section = @ \o (IF is_leaf THEN minimal ELSE full)]

\* generate, up to the loop of _generate_code: _reset, _parse_tac_string
\* (done by the caller for a text), _analyze_tac and _compute_next_use
MIPS_start(instructions) ==
    [MIPSGenerator_new EXCEPT !.instructions = instructions,
                              !.next_use = compute_next_use(instructions)]

\* ------------------------------------------------------------------------
\* The register allocator at work: generate(tac) on a TAC text, one
\* instruction of the loop of _generate_code / _generate_function at a time,
\* and then calls of get_register and free_register on the generator.
\*   walk   = [i, func]: the instruction that the loop is at, and the
\*            function whose body _generate_function is in ("" for none)
\*   driver = [phase, calls, branch]: the calls made on the generator after
\*            generate, and the last conditional branch as the processor
\*            executes it for one value of its register
\* ------------------------------------------------------------------------
MaxCalls == 2

Number(n) == Opd("num", "", n)
Local(n) == Opd("fp", "", n)
AssignLine(a, b) == Line(":=", "", 0, a, "", b, NoOpd)
AddLine(a, b, c) == Line("binop", "", 0, a, "+", b, c)
ParamLine(a) == Line("PARAM", "", 0, a, "", NoOpd, NoOpd)
CallLine(s, n) == Line("CALL", s, n, NoOpd, "", NoOpd, NoOpd)
PrintLine(a) == Line("PRINT", "", 0, a, "", NoOpd, NoOpd)
ReturnLine(a) == Line("RETURN", "", 0, a, "", NoOpd, NoOpd)
IfGotoLine(a, s) == Line("IF", s, 0, a, "", NoOpd, NoOpd)
GotoLine(s) == Line("GOTO", s, 0, NoOpd, "", NoOpd, NoOpd)
LabelLine(s) == Line("label", s, 0, NoOpd, "", NoOpd, NoOpd)
FunctionText(s, body) ==
    <<Line("FUNCTION", s, 0, NoOpd, "", NoOpd, NoOpd)>> \o body
    \o <<Line("END FUNCTION", s, 0, NoOpd, "", NoOpd, NoOpd)>>

\* n declarations `let v: integer = 1;` of locals: fp[0] := 1, fp[4] := 1, ...
Locals(n) == [k \in 1..n |-> AssignLine(Local(4 * (k - 1)), Number(1))]

\* the TAC texts given to generate
BranchText ==
    FunctionText("main", <<AssignLine(Tmp(0), Number(1)), IfGotoLine(Tmp(0), "IF_TRUE_0"),
                       GotoLine("IF_FALSE_0"), LabelLine("IF_TRUE_0"), PrintLine(Tmp(0)),
                       LabelLine("IF_FALSE_0")>>)
CallTexts ==
    {FunctionText("f", <<ReturnLine(Number(1))>>)
        \o FunctionText("main", <<AddLine(Tmp(0), Number(1), Number(2)), CallLine("f", 0),
                              AssignLine(Tmp(1), Opd("R", "", 0)), PrintLine(Tmp(0))>>),
     FunctionText("main", <<PrintLine(Local(0)), CallLine("f", 0),
                        AssignLine(Tmp(0), Opd("R", "", 0)), PrintLine(Local(0))>>),
     FunctionText("main", <<AssignLine(Local(0), Number(1)), AddLine(Tmp(0), Local(0), Local(0)),
                        ParamLine(Tmp(0)), ParamLine(Local(0)), CallLine("f", 2),
                        AssignLine(Tmp(1), Opd("R", "", 0)), ReturnLine(Tmp(0))>>)}
NestedCallText ==
    FunctionText("main", <<ParamLine(Number(1)), ParamLine(Number(2)), CallLine("g", 1),
                       AssignLine(Tmp(0), Opd("R", "", 0)), AddLine(Tmp(1), Tmp(0), Number(1)),
                       ParamLine(Tmp(1)), CallLine("f", 2), AssignLine(Tmp(2), Opd("R", "", 0))>>)
ManyParamTexts ==
    {FunctionText("main", Locals(n) \o <<ParamLine(Number(1)), ParamLine(Number(2)), ParamLine(Local(0)),
                                     ParamLine(Number(0)), ParamLine(a), CallLine("f", 5),
                                     AssignLine(Tmp(0), Opd("R", "", 0))>>)
        : n \in {1, 10}, a \in {Number(2), Local(0)}}
SpillTexts ==
    {FunctionText("main", Locals(n) \o <<AddLine(Tmp(0), Local(0), Number(1)),
                                     AddLine(Tmp(1), Number(1), Local(4)),
                                     PrintLine(Local(0))>>)
        : n \in {17, 18, 19}}
NegativeText ==
    FunctionText("main", <<AssignLine(Tmp(0), Number(0 - 1)), IfGotoLine(Tmp(0), "L_0"),
                           PrintLine(Tmp(0)), LabelLine("L_0")>>)
TopLevelText ==
    <<AssignLine(Opd("G", "", 0), Number(1)), AddLine(Tmp(0), Opd("G", "", 0), Number(1)),
      IfGotoLine(Tmp(0), "L_0"), PrintLine(Tmp(0)), LabelLine("L_0")>>
\* function f() { if (t0) { return 1; } print(2); }
ReturnText ==
    FunctionText("f", <<AssignLine(Tmp(0), Number(1)), IfGotoLine(Tmp(0), "IF_TRUE_0"),
                        GotoLine("IF_END_0"), LabelLine("IF_TRUE_0"), ReturnLine(Number(1)),
                        LabelLine("IF_END_0"), PrintLine(Number(2))>>)
\* function f(n) { return f(n + 1) + n; }
RecursiveText ==
    FunctionText("f", <<AddLine(Tmp(0), Local(0 - 1), Number(1)), ParamLine(Tmp(0)),
                        CallLine("f", 1), AssignLine(Tmp(1), Opd("R", "", 0)),
                        AddLine(Tmp(2), Tmp(1), Local(0 - 1)), ReturnLine(Tmp(2))>>)
\* function f(a, b, c, d, e) { [g();] return e; } and a call f(1, 2, 3, 4, 5)
StackParamTexts ==
    {FunctionText("f", pre \o <<ReturnLine(Local(0 - 5))>>)
        \o FunctionText("main", <<ParamLine(Number(1)), ParamLine(Number(2)), ParamLine(Number(3)),
                                  ParamLine(Number(4)), ParamLine(Number(5)), CallLine("f", 5),
                                  AssignLine(Tmp(0), Opd("R", "", 0))>>)
        : pre \in {<<>>, <<CallLine("g", 0)>>}}
\* 18 locals, then a sum of a numeral and a local that was spilled
ScratchText ==
    FunctionText("main", Locals(18) \o <<AddLine(Tmp(0), Local(0), Number(1)),
                                         AddLine(Tmp(1), Number(1), Local(0))>>)
MipsTexts ==
    {BranchText, NegativeText, NestedCallText, TopLevelText, ReturnText, RecursiveText,
     ScratchText}
    \cup CallTexts \cup ManyParamTexts \cup SpillTexts \cup StackParamTexts

\* the variables given to get_register and the registers given to
\* free_register after generate
CallVariables == {Tmp(0), Tmp(7)}
CallRegisters == {"$t0", "$t2"}

NoBranch == [some |-> FALSE, value |-> 0, taken |-> FALSE]
Values == {0 - 1, 0, 1, 2}

\* the values that a register can hold after the text: the number of the
\* `li` that wrote it last, any value after another instruction
WritesRegister(line, reg) ==
    line.op \in {"li", "lw", "la", "move", "addi", "addu"} /\ line.x = reg
RegisterValues(text, reg) ==
    LET writers == {i \in 1..Len(text) : WritesRegister(text[i], reg)}
        last == CHOOSE i \in writers : \A j \in writers : j <= i
    IN IF writers # {} /\ text[last].op = "li" THEN {text[last].y.n} ELSE Values

\* the processor at a conditional branch on a register that holds value
BranchTaken(op, value) ==
    CASE op = "bne" -> value # 0
      [] op = "beq" -> value = 0
      [] op = "bgtz" -> value > 0

InitMips ==
    /\ symbol_table = ST_new
    /\ st_call = NoCall
    /\ analyzer = SA_new
    /\ tac_generator = NotCreated
    /\ \E text \in MipsTexts :
           mips_generator = MIPS_start(parse_tac_string(text))
    /\ walk = [i |-> 1, func |-> ""]
    /\ driver = [phase |-> "mips", calls |-> 0, branch |-> NoBranch]

\* the instruction that the loop is at
Instr == mips_generator.instructions[walk.i]
AtInstruction(operation) ==
    /\ driver.phase = "mips"
    /\ walk.i <= Len(mips_generator.instructions)
    /\ Instr.comment = NoComment
    /\ Instr.operation = operation
\* _generate_code sets current_instruction_index, _generate_function does not
Indexed ==
    IF walk.func = ""
    THEN [mips_generator EXCEPT !.current_instruction_index = walk.i - 1]
    ELSE mips_generator
Progress(m) ==
    /\ mips_generator' = m
    /\ walk' = [walk EXCEPT !.i = @ + 1]
    /\ UNCHANGED <<symbol_table, st_call, analyzer, tac_generator>>

\* _generate_code at a FUNCTION header: _generate_function up to its loop
MipsFunction ==
    /\ driver.phase = "mips"
    /\ walk.i <= Len(mips_generator.instructions)
    /\ walk.func = ""
    /\ Instr.comment.f = "FUNCTION"
    /\ mips_generator' =
           MIPS_emit_function_prologue(
               [Indexed EXCEPT !.current_function = Instr.comment.s,
                               !.function_stack = Append(@, Instr.comment.s),
                               !.used_saved_registers = {},
                               !.frame_size = 0,
                               !.stack_offset = 0,
                               !.stack_variables = {}],
               Instr.comment.s)
    /\ walk' = [i |-> walk.i + 1, func |-> Instr.comment.s]
    /\ UNCHANGED <<symbol_table, st_call, analyzer, tac_generator, driver>>

\* _generate_function at the END FUNCTION of its function
MipsEndFunction ==
    /\ driver.phase = "mips"
    /\ walk.i <= Len(mips_generator.instructions)
    /\ walk.func # ""
    /\ Instr.comment.f = "END FUNCTION" /\ Instr.comment.s = walk.func
    /\ mips_generator' =
           [MIPS_emit_function_epilogue(mips_generator, walk.func)
               EXCEPT !.current_function = Last(mips_generator.function_stack),
                      !.function_stack = Front(@)]
    /\ walk' = [i |-> walk.i + 1, func |-> ""]
    /\ UNCHANGED <<symbol_table, st_call, analyzer, tac_generator, driver>>

\* _generate_instruction, by the operation of the instruction
MipsLabel ==
    /\ AtInstruction("LABEL")
    /\ Progress(MIPS_emit_label(Indexed, Instr.label))
    /\ UNCHANGED driver

MipsGoto ==
    /\ AtInstruction("GOTO")
    /\ Progress(MIPS_emit_goto(Indexed, Instr.label))
    /\ UNCHANGED driver

MipsIfTrue ==
    /\ AtInstruction("IF_TRUE")
    /\ Progress(MIPS_emit_if_true(Indexed, Instr.arg1, Instr.label))
    /\ \E value \in RegisterValues(mips_generator'.text_section,
                                     Last(mips_generator'.text_section).x) :
           driver' = [driver EXCEPT !.branch =
                         [some |-> TRUE, value |-> value,
                          taken |-> BranchTaken(Last(mips_generator'.text_section).op, value)]]

MipsAssign ==
    /\ AtInstruction("ASSIGN")
    /\ Progress(MIPS_emit_assign(Indexed, Instr.result, Instr.arg1))
    /\ UNCHANGED driver

MipsBinaryOp ==
    /\ AtInstruction("ADD")
    /\ Progress(MIPS_emit_binary_op(Indexed, Instr.result, Instr.arg1, Instr.arg2))
    /\ UNCHANGED driver

MipsParam ==
    /\ AtInstruction("PARAM")
    /\ Progress(MIPS_emit_param(Indexed, Instr.arg1))
    /\ UNCHANGED driver

MipsCall ==
    /\ AtInstruction("CALL")
    /\ Progress(MIPS_emit_call(Indexed, Instr.arg1.s, Instr.arg2.n))
    /\ UNCHANGED driver

MipsReturn ==
    /\ AtInstruction("RETURN")
    /\ Progress(MIPS_emit_return(Indexed, Instr.arg1))
    /\ UNCHANGED driver

MipsPrint ==
    /\ AtInstruction("PRINT")
    /\ Progress(MIPS_emit_print(Indexed, Instr.arg1))
    /\ UNCHANGED driver

\* a call made on the generator once generate has returned
Called ==
    /\ driver.phase = "mips"
    /\ walk.i > Len(mips_generator.instructions)
    /\ driver.calls < MaxCalls
    /\ driver' = [driver EXCEPT !.calls = @ + 1]
    /\ UNCHANGED <<symbol_table, st_call, analyzer, tac_generator, walk>>

MipsGetRegister ==
    /\ Called
    /\ \E variable_name \in CallVariables :
           mips_generator' = get_register(mips_generator, variable_name).g

MipsFreeRegister ==
    /\ Called
    /\ \E register \in CallRegisters, save_to_memory \in BOOLEAN :
           mips_generator' = free_register(mips_generator, register, save_to_memory)

NextMips ==
    \/ MipsFunction \/ MipsEndFunction
    \/ MipsLabel \/ MipsGoto \/ MipsIfTrue
    \/ MipsAssign \/ MipsBinaryOp
    \/ MipsParam \/ MipsCall
    \/ MipsReturn \/ MipsPrint
    \/ MipsGetRegister \/ MipsFreeRegister

SpecMips == InitMips /\ [][NextMips]_vars

\* ------------------------------------------------------------------------
\* Properties of the generated MIPS code and of the descriptors
\* ------------------------------------------------------------------------
\* C11: for a TAC jump `IF t > 0 GOTO L`, the branch that the generator
\* emitted transfers control to L exactly when the register of t holds a
\* value strictly greater than zero.
C11_BranchIffPositive ==
    driver.branch.some => (driver.branch.taken <=> driver.branch.value > 0)

\* SemanticAnalyzer.get_errors: the definition at the end of the class, which
\* is the one in effect; it copies the analyzer's own list
SA_get_errors(an) == an.errors

Occurrences(errors, message) ==
    Cardinality({i \in DOMAIN errors : errors[i] = message})

\* C12: the list that get_errors returns holds every message recorded by the
\* analyzer, by the symbol table and by the expression evaluator, each
\* distinct message exactly once.
C12_ErrorsMergedOnce ==
    LET errors == SA_get_errors(analyzer) IN
        /\ \A i \in DOMAIN analyzer.errors :
               Occurrences(errors, analyzer.errors[i]) = 1
        /\ \A i \in DOMAIN symbol_table.errors :
               Occurrences(errors, symbol_table.errors[i]) = 1
        /\ \A i \in DOMAIN analyzer.ev_errors :
               Occurrences(errors, analyzer.ev_errors[i]) = 1

\* C13: a call of exit_scope returns normally (the step STExitScope) only
\* when the current scope has a parent, and then the parent is the current
\* scope afterwards; at the global scope the call fails instead of returning.
C13_ExitScopeFailsAtGlobal ==
    [][st_call'.op = "exit_scope" =>
          LET parent == symbol_table.scopes[symbol_table.current_scope].parent IN
          /\ parent # 0
          /\ symbol_table'.current_scope = parent]_vars

\* C14: a local variable that a step of the generator declares in a function
\* gets an fp offset strictly greater than the offsets of the locals that the
\* function had before the step (parameters are below fp and do not count).
C14_LocalOffsetsIncrease ==
    [][\A p \in tac_generator'.scope_variables :
           (/\ driver.phase = "tac"
            /\ p \notin tac_generator.scope_variables
            /\ p[1][1] # "global"
            /\ p[2] >= 0)
           => \A q \in tac_generator.scope_variables :
                  (q[1][1] = p[1][1] /\ q[1][2] # p[1][2] /\ q[2] >= 0)
                  => q[2] < p[2]]_vars

\* C15: the k-th variable declared at top level has the global offset that
\* is the sum of the sizes of the globals declared before it, counting 4
\* bytes for integer and boolean, 8 for float, 0 for void and 8 for string
\* and every reference type.
C15_GlobalOffsetIsSumOfSizes ==
    LET kids == walk.stack[1].ctx.kids
        Size(type) ==
            CASE type \in {"integer", "boolean"} -> 4
              [] type = "float" -> 8
              [] type = "void" -> 0
              [] OTHER -> 8
        RECURSIVE Before(_)
        Before(j) ==
            IF j = 0 THEN 0
            ELSE Before(j - 1)
                 + (IF kids[j].kind = "var" THEN Size(kids[j].type) ELSE 0)
    IN driver.phase = "tac" =>
           \A j \in 1..Len(kids) :
               (j < walk.stack[1].i /\ kids[j].kind = "var")
               => DictGet(tac_generator.global_variables, kids[j].name) = Before(j - 1)

\* a function declaration or a constructor is open around the next node
Enclosed ==
    \E k \in 1..Len(walk.stack) : walk.stack[k].kind \in {"function", "init"}

\* C16: a return statement receives the diagnostic `Return statement must be
\* inside a function` exactly when no function body and no constructor body
\* encloses it.
C16_ReturnOutsideFunction ==
    [][SemReturnStatement =>
          ((/\ Len(analyzer'.errors) = Len(analyzer.errors) + 1
            /\ Last(analyzer'.errors)[2] = "Return statement must be inside a function")
           <=> ~Enclosed)]_vars

\* C17: for every variable v and register R, the variable descriptor maps v
\* to R if and only if v is in the register descriptor's set of R.
C17_DescriptorsInLockstep ==
    mips_generator.created =>
        LET rd == mips_generator.register_descriptor
            vd == mips_generator.variable_descriptor
            variables == {p[1] : p \in vd} \cup UNION {p[2] : p \in rd}
            registers == Range(TEMP_REGISTERS) \cup Range(SAVED_REGISTERS)
                         \cup {p[1] : p \in rd}
        IN \A v \in variables, R \in registers :
               (DictHas(vd, v) /\ DictGet(vd, v) = Reg(R))
               <=> (DictHas(rd, R) /\ v \in DictGet(rd, R))

\* the lines that a step appends to the text section
NewLines ==
    SubSeq(mips_generator'.text_section,
           Len(mips_generator.text_section) + 1, Len(mips_generator'.text_section))

\* line i of the lines loads register back from the $sp slot that an earlier
\* one of the lines stored it to
Restores(lines, i, register) ==
    /\ lines[i].op = "lw" /\ lines[i].y.k = "sp"
    /\ \E j \in 1..(i - 1) :
           lines[j].op = "sw" /\ lines[j].x = Reg(register) /\ lines[j].y = lines[i].y

\* C18: when a step writes a register that held a variable v, for another
\* variable or as a scratch register, a store of the register to a stack
\* slot of v was emitted before the write and the variable descriptor of v
\* names that slot after the step.
C18_StoredBeforeOverwritten ==
    [][(mips_generator.created /\ mips_generator'.created) =>
          \A p \in mips_generator.register_descriptor :
              \A v \in p[2] : \A i \in 1..Len(NewLines) :
                  (/\ WritesRegister(NewLines[i], Reg(p[1]))
                   /\ NewLines[i].var # v
                   /\ ~Restores(NewLines, i, p[1]))
                  => \E j \in 1..(i - 1) :
                         /\ NewLines[j].op = "sw"
                         /\ NewLines[j].x = Reg(p[1])
                         /\ NewLines[j].var = v
                         /\ NewLines[j].y.k = "stack"
                         /\ DictGet(mips_generator'.variable_descriptor, v) = NewLines[j].y]_vars

\* the variables that an instruction reads
Reads(instruction) ==
    IF instruction.operation = "CALL" \/ instruction.comment # NoComment THEN {}
    ELSE {a \in {instruction.arg1, instruction.arg2} : a.k \in {"t", "fp", "G"}}

\* variable is read by an instruction after instruction i of the function
\* that i is in, and is not assigned between the two
ReadAfter(variable, i) ==
    LET instructions == mips_generator.instructions IN
    \E k \in (i + 1)..Len(instructions) :
        /\ variable \in Reads(instructions[k])
        /\ \A j \in (i + 1)..(k - 1) :
               /\ instructions[j].comment = NoComment
               /\ instructions[j].result # variable

\* C19: at a CALL, every temporary register holding a variable that is read
\* after the call is stored to an $sp slot before the jal and loaded back
\* from the same slot after the jal.
C19_LiveTemporariesSaved ==
    [][MipsCall =>
          \A p \in mips_generator.register_descriptor :
              \A v \in p[2] :
                  (p[1] \in Range(TEMP_REGISTERS) /\ ReadAfter(v, walk.i))
                  => \E j, c, k \in 1..Len(NewLines) :
                         /\ j < c /\ c < k
                         /\ NewLines[c].op = "jal"
                         /\ NewLines[j].op = "sw" /\ NewLines[j].x = Reg(p[1])
                         /\ NewLines[j].y.k = "sp"
                         /\ NewLines[k].op = "lw" /\ NewLines[k].x = Reg(p[1])
                         /\ NewLines[k].y = NewLines[j].y]_vars

\* the operands of the PARAM instructions that belong to a CALL with `need`
\* parameters, read backwards from instruction j: a CALL in between takes
\* the PARAMs nearest before it
RECURSIVE own_params(_, _, _, _)
own_params(instructions, j, skip, need) ==
    IF need = 0 \/ j = 0 THEN <<>>
    ELSE IF instructions[j].comment # NoComment
    THEN own_params(instructions, j - 1, skip, need)
    ELSE IF instructions[j].operation = "CALL"
    THEN own_params(instructions, j - 1, skip + instructions[j].arg2.n, need)
    ELSE IF instructions[j].operation = "PARAM"
    THEN (IF skip > 0 THEN own_params(instructions, j - 1, skip - 1, need)
          ELSE Append(own_params(instructions, j - 1, 0, need - 1), instructions[j].arg1))
    ELSE own_params(instructions, j - 1, skip, need)

\* before line `at` of the text, the last instruction that wrote register
\* gave it the value of operand
HoldsAt(text, at, register, operand) ==
    LET writers == {i \in 1..(at - 1) : WritesRegister(text[i], register)}
        last == CHOOSE i \in writers : \A j \in writers : j <= i
    IN /\ writers # {}
       /\ \/ text[last].var = operand
          \/ text[last].op = "li" /\ text[last].y = operand

\* C20: at the jal of a CALL, argument k of the call (counted from 0 among
\* the PARAMs of that call) is in register $a<k> for k < 4 and has been
\* stored at (k - 4) * 4($sp) for k >= 4.
C20_ArgumentsInPlace ==
    [][MipsCall =>
          LET params == own_params(mips_generator.instructions, walk.i - 1, 0, Instr.arg2.n)
              text == mips_generator'.text_section
              jal == CHOOSE i \in 1..Len(text) :
                         /\ text[i].op = "jal"
                         /\ \A j \in (i + 1)..Len(text) : text[j].op # "jal"
          IN \A k \in 0..(Len(params) - 1) :
                 IF k < 4
                 THEN HoldsAt(text, jal, Reg(ARG_REGISTERS[k + 1]), params[k + 1])
                 ELSE \E s \in (Len(mips_generator.text_section) + 1)..(jal - 1) :
                          /\ text[s].op = "sw"
                          /\ text[s].y = SpLoc((k - 4) * 4)
                          /\ HoldsAt(text, s, text[s].x, params[k + 1])]_vars

\* an instruction of the processor, as opposed to a label or a comment
Executable(line) == line.op \notin {"label", "#"}

\* the instruction that the loop is at comes right after a RETURN of the
\* same function body: only labels stand between the two
AfterReturn ==
    /\ driver.phase = "mips" /\ walk.func # ""
    /\ walk.i <= Len(mips_generator.instructions)
    /\ \E r \in 1..(walk.i - 1) :
           /\ mips_generator.instructions[r].comment = NoComment
           /\ mips_generator.instructions[r].operation = "RETURN"
           /\ \A j \in (r + 1)..(walk.i - 1) :
                  /\ mips_generator.instructions[j].comment = NoComment
                  /\ mips_generator.instructions[j].operation = "LABEL"

\* C21: the code that follows the code of a RETURN in the text, and that
\* the processor therefore executes after it, is the epilogue of the
\* function: no instruction of a later TAC instruction of the body stands
\* between the two.
C21_ReturnReachesEpilogue ==
    [][(AfterReturn /\ walk'.i = walk.i + 1
        /\ \E i \in 1..Len(NewLines) : Executable(NewLines[i]))
       => MipsEndFunction]_vars

\* the walker is inside an if statement, whose blocks enterIfStatement has
\* lowered already
InsideIf ==
    /\ driver.phase = "tac"
    /\ \E k \in 1..Len(walk.stack) : walk.stack[k].ctx.kind = "if"

\* C22: a statement in a block of an if statement is lowered once, by
\* enterIfStatement: the handlers that the walker calls afterwards for the
\* nodes inside the if statement emit no instruction and assign no slot.
C22_LoweredOnce ==
    [][InsideIf =>
          /\ tac_generator'.instructions = tac_generator.instructions
          /\ tac_generator'.current_local_offset = tac_generator.current_local_offset
          /\ tac_generator'.current_global_offset = tac_generator.current_global_offset]_vars

\* the line of the text with the label of the function that the loop is in
\* (0 when the loop is in no function)
FunctionStart ==
    LET text == mips_generator.text_section
        labels == {i \in 1..Len(text) :
                      text[i].op = "label" /\ text[i].x = Lbl(walk.func)}
    IN IF walk.func = "" \/ labels = {} THEN 0
       ELSE CHOOSE i \in labels : \A j \in labels : j <= i

\* C23: when an instruction of a function reads the parameter fp[-k],
\* k <= 4, no instruction emitted since the label of the function has
\* written the argument register of that parameter with another value.
C23_ParameterIntact ==
    [][\A k \in 1..4 :
           (/\ driver.phase = "mips" /\ walk.func # "" /\ walk'.i = walk.i + 1
            /\ walk.i <= Len(mips_generator.instructions)
            /\ Local(0 - k) \in Reads(Instr))
           => ~\E i \in (FunctionStart + 1)..Len(mips_generator.text_section) :
                  /\ WritesRegister(mips_generator.text_section[i], Reg(ARG_REGISTERS[k]))
                  /\ mips_generator.text_section[i].var # Local(0 - k)]_vars

\* _emit_call, step 1: the question whether var is used after the
\* instruction that is being translated
has_live_var(m, var) ==
    /\ DictHas(m.next_use, var)
    /\ DictGet(m.next_use, var) # NoUse
    /\ DictGet(m.next_use, var) > m.current_instruction_index

\* C24: when _emit_call asks, at instruction i, whether a variable held in
\* a temporary register has a future use, the answer is yes exactly when an
\* instruction after i reads the variable before it is assigned again.
C24_NextUseIsLiveness ==
    [][MipsCall =>
          \A p \in mips_generator.register_descriptor :
              (p[1] \in Range(TEMP_REGISTERS) /\ p[1] \in mips_generator.register_used)
              => \A v \in p[2] : has_live_var(Indexed, v) <=> ReadAfter(v, walk.i)]_vars

\* the bytes that the prologue of the function the loop is in has reserved
\* below the caller's stack pointer: $fp = $sp is the lowest of them
ReservedFrame ==
    IF /\ DictHas(mips_generator.is_leaf, walk.func)
       /\ ~DictGet(mips_generator.is_leaf, walk.func)
    THEN 8 ELSE 0

\* C25: every slot -n($fp) that a variable of the function has been given
\* lies inside the frame that the prologue reserved, i.e. among the bytes
\* $fp .. $fp + ReservedFrame - 1.
C25_SlotsInsideFrame ==
    (mips_generator.created /\ driver.phase = "mips" /\ walk.func # "") =>
        \A p \in mips_generator.stack_variables :
            /\ 0 - p[2] >= 0
            /\ 0 - p[2] + 4 <= ReservedFrame

\* the lines of the text from the label of function f to its `jr $ra`
FunctionLines(f) ==
    LET text == mips_generator.text_section
        starts == {i \in 1..Len(text) : text[i].op = "label" /\ text[i].x = Lbl(f)}
        start == CHOOSE i \in starts : \A j \in starts : j <= i
        ends == {i \in start..Len(text) : text[i].op = "jr"}
        end == CHOOSE i \in ends : \A j \in ends : i <= j
    IN IF starts = {} THEN <<>>
       ELSE SubSeq(text, start, IF ends = {} THEN Len(text) ELSE end)

\* the offsets n of the loads `lw reg, n($fp)` of stack parameters in lines
ParamLoads(lines) ==
    {lines[i].y.n : i \in {j \in 1..Len(lines) : lines[j].op = "lw" /\ lines[j].y.k = "fp+"}}

\* $fp inside function f, relative to $sp at the `jal f` of a call site that
\* has lowered $sp by total_space below the $fp of the calling function: a
\* prologue with `move $fp, $sp` sets it to $sp less the bytes it reserved,
\* a minimal one leaves the $fp of the calling function
CalleeFp(f, total_space) ==
    LET lines == FunctionLines(f)
        moves == {i \in 1..Len(lines) :
                     lines[i].op = "move" /\ lines[i].x = Reg("$fp") /\ lines[i].y = Reg("$sp")}
        adjusts == {i \in 1..Len(lines) :
                       /\ lines[i].op = "addi" /\ lines[i].x = Reg("$sp")
                       /\ \E j \in moves : i < j}
    IN IF moves = {} THEN total_space
       ELSE IF adjusts = {} THEN 0
       ELSE lines[CHOOSE i \in adjusts : TRUE].z.n

\* the offset from $sp at the `jal` at which the lines of a call site store
\* the argument with list index k >= 4: its stores `sw reg, n($sp)` come
\* after those of the saved registers
ArgumentStore(lines, num_params, k) ==
    LET total_space == IF lines[1].op = "addi" THEN 0 - lines[1].z.n ELSE 0
        saved == (total_space - (num_params - 4) * 4) \div 4
        stores == SelectSeq(lines, LAMBDA l : l.op = "sw" /\ l.y.k = "sp")
    IN stores[saved + k - 3].y.n

\* an instruction in the body of function f reads fp[-param_index]
ReadsParameter(f, param_index) ==
    LET instructions == mips_generator.instructions IN
    \E a \in 1..Len(instructions) : \E i \in (a + 1)..Len(instructions) :
        /\ instructions[a].comment.f = "FUNCTION" /\ instructions[a].comment.s = f
        /\ \A j \in a..i : instructions[j].comment.f # "END FUNCTION"
        /\ Local(0 - param_index) \in Reads(instructions[i])
\* C26: at a call with more than four arguments from a function to a function
\* generated before it that reads its parameter fp[-(k+1)], k >= 4, the
\* address to which the call site stores argument k is the address that the
\* callee loads the parameter from.
C26_StackArgumentAddress ==
    [][(MipsCall /\ walk.func # "" /\ Instr.arg2.n > 4) =>
          \A k \in 4..(Instr.arg2.n - 1) :
              ReadsParameter(Instr.arg1.s, k + 1)
              => \A n \in ParamLoads(FunctionLines(Instr.arg1.s)) :
                     ArgumentStore(NewLines, Instr.arg2.n, k)
                         = CalleeFp(Instr.arg1.s, 0 - NewLines[1].z.n) + n]_vars

\* ------------------------------------------------------------------------
\* ExpressionEvaluator.py: operator nodes
\* ------------------------------------------------------------------------
\* An operator node is <<operator, operands>>: the operands of one grammar
\* node joined by the operator; an operand in parentheses goes through
\* evaluate_primary_expr and evaluate_expression and is evaluated alike.
Operators == {"||", "&&", "==", "<", "+", "-", "*", "%", "neg", "!"}
IsOperatorNode(e) == e[1] \in Operators

EE_error(line, message, left, right) == <<line, message, left \o " and " \o right>>

\* evaluate_literal_expr and evaluate_left_hand_side
EE_evaluate_primary_expr(st, e, line) ==
    IF e[1] = "bool" THEN [type |-> "boolean", errors |-> <<>>]
    ELSE IF e[1] = "str" THEN [type |-> "string", errors |-> <<>>]
    ELSE IF e[1] = "null" THEN [type |-> "null", errors |-> <<>>]
    ELSE EE_evaluate_expression(st, e, line)

\* the body of the loop over the operands of a node: the type so far, the
\* diagnostic that add_error appends, and whether the method returns at once
EE_operand_step(op, left, right, line) ==
    LET basic == {"integer", "string", "boolean"}
        Bad(message, stop) ==
            [type |-> "null", errors |-> <<EE_error(line, message, left, right)>>, stop |-> stop]
        Good(type) == [type |-> type, errors |-> <<>>, stop |-> FALSE]
    IN CASE op = "||" -> IF right # "boolean"
                         THEN Bad("Logical OR operand must be boolean", FALSE) ELSE Good(left)
         [] op = "&&" -> IF right # "boolean"
                         THEN Bad("Logical AND operand must be boolean", FALSE) ELSE Good(left)
         [] op = "==" -> IF ~(left \in basic /\ right \in basic /\ left = right)
                         THEN Bad("requiere operandos del mismo tipo", TRUE) ELSE Good("boolean")
         [] op = "<" -> IF ~(left = "integer" /\ right = "integer")
                        THEN Bad("requiere integer", TRUE) ELSE Good("boolean")
         [] op = "+" -> IF left = "integer" /\ right = "integer" THEN Good("integer")
                        ELSE IF left = "string" /\ right = "string" THEN Good("string")
                        ELSE Bad("Cannot add", FALSE)
         [] op = "-" -> IF left # "integer" \/ right # "integer"
                        THEN Bad("Subtraction requires integers", FALSE) ELSE Good(left)
         [] op = "%" -> IF left = "integer" /\ right = "integer" THEN Good("integer")
                        ELSE Bad("Modulo requires integer operands", FALSE)
         [] OTHER -> IF left = "integer" /\ right = "integer" THEN Good("integer")
                     ELSE Bad("Arithmetic requires numeric operands", FALSE)

\* evaluate_logical_or_expr ... evaluate_unary_expr: [type, errors]
RECURSIVE EE_evaluate_node(_, _, _)
RECURSIVE EE_evaluate_operands(_, _, _, _, _)
EE_evaluate_operands(st, e, line, i, left) ==
    IF i > Len(e[2])
    THEN (IF e[1] \in {"==", "<"} THEN [left EXCEPT !.type = "boolean"] ELSE left)
    ELSE LET right == EE_evaluate_node(st, e[2][i], line)
             step == EE_operand_step(e[1], left.type, right.type, line)
             now == [type |-> step.type, errors |-> left.errors \o right.errors \o step.errors]
         IN IF step.stop THEN now ELSE EE_evaluate_operands(st, e, line, i + 1, now)

EE_evaluate_node(st, e, line) ==
    IF ~IsOperatorNode(e) THEN EE_evaluate_primary_expr(st, e, line)
    ELSE IF e[1] \in {"neg", "!"}
    THEN LET operand == EE_evaluate_node(st, e[2][1], line)
             wanted == IF e[1] = "neg" THEN "integer" ELSE "boolean"
             message == IF e[1] = "neg" THEN "Unary minus requires numeric operand"
                        ELSE "Logical NOT requires boolean"
         IN IF operand.type # wanted
            THEN [type |-> "null",
                  errors |-> Append(operand.errors, <<line, message, operand.type>>)]
            ELSE operand
    ELSE IF e[1] \in {"||", "&&"}
    THEN EE_evaluate_operands(st, e, line, 1, [type |-> "boolean", errors |-> <<>>])
    ELSE EE_evaluate_operands(st, e, line, 2, EE_evaluate_node(st, e[2][1], line))

\* the expressions given to the evaluator: u is not declared
ExprAtoms == {<<"int">>, <<"bool">>, <<"str">>, <<"null">>, <<"id", "u">>, <<"this">>}
ExprFaulty == {<<"+", <<(<<"id", "u">>), (<<"int">>)>> >>,
               <<"!", <<(<<"id", "u">>)>> >>,
               <<"neg", <<(<<"bool">>)>> >>,
               <<"+", <<(<<"int">>), (<<"int">>)>> >>}
Exprs ==
    ExprAtoms
    \cup {<<op, <<a>> >> : op \in {"neg", "!"}, a \in ExprAtoms \cup ExprFaulty}
    \cup {<<op, <<a, b>> >> : op \in Operators \ {"neg", "!"}, a \in ExprAtoms,
                             b \in {<<"int">>, <<"bool">>, <<"id", "u">>}}
    \cup {<<op, <<a, b>> >> : op \in {"||", "+", "*", "=="}, a \in ExprFaulty,
                             b \in {<<"int">>, <<"bool">>}}
    \cup {<<op, <<a, b, c>> >> : op \in {"+", "&&"}, a \in {<<"int">>, <<"id", "u">>},
                                b \in {<<"int">>, <<"bool">>}, c \in {<<"int">>, <<"bool">>}}

InitExpr ==
    /\ symbol_table = ST_new
    /\ st_call = NoCall
    /\ analyzer = SA_new
    /\ walk \in {[expr |-> e, type |-> "null", evaluated |-> FALSE] : e \in Exprs}
    /\ driver = [phase |-> "expr"]
    /\ tac_generator = NotCreated
    /\ mips_generator = NotCreated

\* evaluate_expression on the expression, as an enter handler calls it
ExprEvaluate ==
    /\ driver.phase = "expr"
    /\ ~walk.evaluated
    /\ LET r == EE_evaluate_node(symbol_table, walk.expr, 1) IN
           /\ analyzer' = SA_ev_errors(analyzer, r.errors)
           /\ walk' = [walk EXCEPT !.type = r.type, !.evaluated = TRUE]
    /\ UNCHANGED <<symbol_table, st_call, driver, tac_generator, mips_generator>>

NextExpr == ExprEvaluate

SpecExpr == InitExpr /\ [][NextExpr]_vars

\* the diagnostics that evaluating the operands of node e emits
RECURSIVE OperandDiagnostics(_, _)
OperandDiagnostics(e, i) ==
    IF i > Len(e[2]) THEN 0
    ELSE Len(EE_evaluate_node(symbol_table, e[2][i], 1).errors) + OperandDiagnostics(e, i + 1)

\* an operand of node e evaluates to Null with a diagnostic
NullOperand(e) ==
    \E i \in 1..Len(e[2]) :
        LET r == EE_evaluate_node(symbol_table, e[2][i], 1) IN
        r.type = "null" /\ r.errors # <<>>

\* C27: when an operand of an operator node has evaluated to Null with a
\* diagnostic, evaluating the node records no diagnostic beyond those of its
\* operands.
C27_NoCascade ==
    (/\ driver.phase = "expr" /\ walk.evaluated
     /\ IsOperatorNode(walk.expr) /\ NullOperand(walk.expr))
    => Len(analyzer.ev_errors) <= OperandDiagnostics(walk.expr, 1)

\* ------------------------------------------------------------------------
\* MIPSGenerator.generate called again on one generator object
\* ------------------------------------------------------------------------
\* The caller holds MaxLists list objects of TACInstruction; the attribute
\* self.instructions of the generator refers to one of them, or to a list of
\* its own (OwnList): the [] of __init__ or the result of _parse_tac_string.
MaxLists == 2
MaxGenerate == 3
OwnList == 0
NoOutput == <<MipsLine("none", "")>>
GenerateTexts == {BranchText, TopLevelText, ReturnText, RecursiveText}

InitGenerate ==
    /\ symbol_table = ST_new
    /\ st_call = NoCall
    /\ analyzer = SA_new
    /\ tac_generator = NotCreated
    /\ walk = Walk_new
    /\ mips_generator = [created |-> TRUE, instructions |-> OwnList, output |-> NoOutput]
    /\ \E texts \in [1..MaxLists -> GenerateTexts] :
           driver = [phase |-> "generate", calls |-> 0,
                     lists |-> [id \in 1..MaxLists |-> parse_tac_string(texts[id])],
                     first |-> [id \in 1..MaxLists |-> NoOutput],
                     input |-> OwnList]

\* _reset: self.instructions.clear() empties the list object that the
\* attribute refers to
reset_lists(m, lists) ==
    [id \in DOMAIN lists |-> IF m.instructions = id THEN <<>> ELSE lists[id]]

\* generate(tac_input) with a list: _reset, then _analyze_tac, _generate_code
\* (self.instructions = instructions) and _format_output on the list as
\* _reset has left it
GenerateList ==
    /\ driver.phase = "generate" /\ driver.calls < MaxGenerate
    /\ \E id \in 1..MaxLists :
           LET lists == reset_lists(mips_generator, driver.lists)
               output == format_output(generate_code(lists[id], 1, <<>>))
           IN /\ mips_generator' = [created |-> TRUE, instructions |-> id, output |-> output]
              /\ driver' = [driver EXCEPT !.calls = @ + 1, !.lists = lists, !.input = id,
                                          !.first[id] = IF @ = NoOutput THEN output ELSE @]
    /\ UNCHANGED <<symbol_table, st_call, analyzer, walk, tac_generator>>

\* generate(tac_input) with a string: the list is the one _parse_tac_string made
GenerateString ==
    /\ driver.phase = "generate" /\ driver.calls < MaxGenerate
    /\ \E text \in GenerateTexts :
           /\ mips_generator' =
                  [created |-> TRUE, instructions |-> OwnList,
                   output |-> format_output(generate_code(parse_tac_string(text), 1, <<>>))]
           /\ driver' = [driver EXCEPT !.calls = @ + 1, !.input = OwnList,
                                       !.lists = reset_lists(mips_generator, @)]
    /\ UNCHANGED <<symbol_table, st_call, analyzer, walk, tac_generator>>

NextGenerate == GenerateList \/ GenerateString

SpecGenerate == InitGenerate /\ [][NextGenerate]_vars

\* C28: a generate call leaves every list that the caller holds as it was,
\* and generating again from a list returns the text that the first generate
\* from that list returned.
C28_InputNotModified ==
    [][driver.phase = "generate" =>
          /\ \A id \in 1..MaxLists : driver'.lists[id] = driver.lists[id]
          /\ (driver'.input # OwnList /\ driver.first[driver'.input] # NoOutput)
             => mips_generator'.output = driver.first[driver'.input]]_vars

\* C29: the operation emitted for a binary TAC instruction with two
\* different source operands reads them from two different places: the
\* register of the first operand is not the register of the second.
C29_OperandsInDifferentRegisters ==
    [][(MipsBinaryOp /\ Instr.result # NoOpd /\ Instr.arg1 # Instr.arg2) =>
          \A i \in 1..Len(NewLines) :
              NewLines[i].op \in {"addu", "addi"} => NewLines[i].y # NewLines[i].z]_vars

\* ------------------------------------------------------------------------
\* ExtendedSymbolTable.py: TempVariableManager
\* ------------------------------------------------------------------------
\* The ExtendedSymbol objects that allocate_temp has made are the elements
\* of symbols, in the order of their making; temp_vars maps a temp_id to
\* the index of the object that was registered last under it.
MaxTemps == 3
MaxFree == 3
MaxLevel == 2

EST_new ==
    [level |-> 0, symbols |-> <<>>,
     temp_vars |-> {}, free_temps |-> <<>>, temp_counter |-> 0, errors |-> <<>>]

\* TempVariableManager.allocate_temp with _get_next_temp_id
TVM_allocate_temp(t, scope_level) ==
    LET reuse == t.free_temps # <<>>
        temp_id == IF reuse THEN Head(t.free_temps) ELSE t.temp_counter + 1
    IN [t EXCEPT !.free_temps = IF reuse THEN Tail(@) ELSE @,
                 !.temp_counter = IF reuse THEN @ ELSE @ + 1,
                 !.symbols = Append(@, [temp_id |-> temp_id, is_live |-> TRUE,
                                        scope_level |-> scope_level]),
                 !.temp_vars = DictPut(@, temp_id, Len(t.symbols) + 1)]

\* TempVariableManager.free_temp
TVM_free_temp(t, temp_id) ==
    IF DictHas(t.temp_vars, temp_id)
    THEN [t EXCEPT !.symbols[DictGet(t.temp_vars, temp_id)].is_live = FALSE,
                   !.free_temps = Append(@, temp_id)]
    ELSE t

\* ExtendedSymbolTable.allocate_temporary, free_temporary
EST_allocate_temporary(t) == TVM_allocate_temp(t, t.level)
EST_free_temporary(t, temp_symbol) == TVM_free_temp(t, t.symbols[temp_symbol].temp_id)

\* ExtendedSymbolTable.enter_scope, exit_scope: the live temporaries of the
\* current level are freed in the order of temp_vars, which is the order in
\* which their ids were first registered (every id is its own key here, so
\* the order of the frees decides only the order of free_temps)
EST_enter_scope(t) == [t EXCEPT !.level = @ + 1]
RECURSIVE EST_free_level(_, _)
EST_free_level(t, ids) ==
    IF ids = {} THEN t
    ELSE LET temp_id == CHOOSE i \in ids : \A j \in ids : i <= j
         IN EST_free_level(TVM_free_temp(t, temp_id), ids \ {temp_id})
EST_exit_scope(t) ==
    LET live == {p[1] : p \in {q \in t.temp_vars :
                                   /\ t.symbols[q[2]].is_live
                                   /\ t.symbols[q[2]].scope_level = t.level}}
        freed == EST_free_level(t, live)
    IN [freed EXCEPT !.level = IF @ > 0 THEN @ - 1 ELSE @]

InitTemp ==
    /\ symbol_table = EST_new
    /\ st_call = NoCall
    /\ analyzer = SA_new
    /\ walk = Walk_new
    /\ driver = [phase |-> "temps"]
    /\ tac_generator = NotCreated
    /\ mips_generator = NotCreated

TempIdle == UNCHANGED <<st_call, analyzer, walk, driver, tac_generator, mips_generator>>

TempAllocate ==
    /\ driver.phase = "temps"
    /\ Len(symbol_table.symbols) < MaxTemps
    /\ symbol_table' = EST_allocate_temporary(symbol_table)
    /\ TempIdle

TempFreeTemp ==
    /\ driver.phase = "temps"
    /\ Len(symbol_table.free_temps) < MaxFree
    /\ \E temp_id \in 1..MaxTemps : symbol_table' = TVM_free_temp(symbol_table, temp_id)
    /\ TempIdle

TempFreeTemporary ==
    /\ driver.phase = "temps"
    /\ Len(symbol_table.free_temps) < MaxFree
    /\ \E temp_symbol \in 1..Len(symbol_table.symbols) :
           symbol_table' = EST_free_temporary(symbol_table, temp_symbol)
    /\ TempIdle

TempEnterScope ==
    /\ driver.phase = "temps"
    /\ symbol_table.level < MaxLevel
    /\ symbol_table' = EST_enter_scope(symbol_table)
    /\ TempIdle

TempExitScope ==
    /\ driver.phase = "temps"
    /\ Len(symbol_table.free_temps) + Len(symbol_table.symbols) <= MaxFree
    /\ symbol_table' = EST_exit_scope(symbol_table)
    /\ TempIdle

NextTemp ==
    \/ TempAllocate \/ TempFreeTemp \/ TempFreeTemporary
    \/ TempEnterScope \/ TempExitScope

SpecTemp == InitTemp /\ [][NextTemp]_vars

\* C30: no two live temporaries have the same temp_id.
C30_LiveIdsDistinct ==
    driver.phase = "temps" =>
        \A i, j \in 1..Len(symbol_table.symbols) :
            (/\ i # j
             /\ symbol_table.symbols[i].is_live
             /\ symbol_table.symbols[j].is_live)
            => symbol_table.symbols[i].temp_id # symbol_table.symbols[j].temp_id
====
